---------------------------- MODULE Spec2Model ----------------------------
(***************************************************************************)
(* State-machine model of vnpy/gateway/bitmex/bitmex_gateway.py:           *)
(* BitmexRestApi (rate governor, order-id correlator, order placement,     *)
(* cancellation, history query) and BitmexWebsocketApi (stream session).   *)
(*                                                                         *)
(* Spec        REST handlers, each run to completion (one caller at a      *)
(*             time, the timer and the REST callbacks in between).         *)
(* SpecHistory query_history, page by page, with the timer and the         *)
(*             cancellation traffic in between.                            *)
(* SpecConc    send_order callers, the timer thread and the REST worker    *)
(*             interleaved at the reads and writes of the rate governor's  *)
(*             fields.                                                     *)
(* SpecWs      the stream session: connect, authenticate, subscribe, the   *)
(*             packets of the venue, disconnects and reconnects.           *)
(* SpecOrders  send_order callers and the REST worker interleaved at the   *)
(*             steps on the order counter, the request queue, the order    *)
(*             objects and the host.                                       *)
(***************************************************************************)
EXTENDS Integers, Sequences, FiniteSets, TLC

(***************************************************************************)
(* Bounds of the model.                                                    *)
(***************************************************************************)
\* orders placed per run (caps order_count)
MaxOrders == 2
\* requests of add_request not yet answered
MaxInFlight == 2
\* the largest Retry-After value the venue sends
MaxRetryAfter == 1

\* send_order calls of one caller thread
MaxCalls == 1
\* timer events of one run of the threads
MaxTicks == 1
\* the connections the stream transport opens, the packets it delivers
MaxWsConnects == 2
MaxWsPackets == 4
\* the venue sends data while the host has been given fewer events than this
MaxEvents == 3

\* how far below 0 rate_limit_sleep is told apart: the code only tests it
\* against 0, so every value at or below the floor is kept as the floor
MaxSleepDebt == 2

SleepFloor == 0 - MaxSleepDebt
\* full pages the venue serves to one history query
MaxFullPages == 1
\* rows of a page that is not full
ShortRows == 10

(***************************************************************************)
(* Program constants.                                                      *)
(***************************************************************************)
\* self.order_count = 1_000_000
InitialOrderCount == 1000000
\* self.rate_limit_limit = 60
DefaultRateLimit == 60
\* query_history: count = 750, and the 750 of `if len(data) < 750`
PageCount == 750

VARIABLES
    rate_limit_limit,       \* BitmexRestApi.rate_limit_limit
    rate_limit_remaining,   \* BitmexRestApi.rate_limit_remaining
    rate_limit_sleep,       \* BitmexRestApi.rate_limit_sleep
    order_count,            \* BitmexRestApi.order_count
    connect_time,           \* BitmexRestApi.connect_time
    connected,              \* RestClient started by connect()
    requests,               \* RestClient queue: requests added, not yet answered
    order_objs,             \* the OrderData objects send_order created (by reference)
    emitted,                \* what gateway.on_order handed to the host, in order
    last,                   \* the handler that ran last and what it returned
    hist_pc,                \* query_history: "idle", or "waiting" in self.request
    hist_req,               \* query_history: its HistoryRequest
    hist_start_time,        \* query_history: start_time
    hist_history,           \* query_history: history
    hist_served,            \* the pages the venue answered to this query, in order
    th,                     \* the threads: where each is and its local variables
    active,                 \* BitmexWebsocketApi.active: the stream session runs
    ws_started,             \* BitmexWebsocketApi.connect has been called
    ws_conn,                \* the stream connection: "down" or "up"
    ws_connects,            \* the connections the transport has opened
    ws_received,            \* the packets the transport has delivered
    ws_sent,                \* the ops of the packets sent to the venue, in order
    ws_invalid_seen,        \* a delivered error text contained "not valid"
    ws_acked,               \* the authKey successes delivered on this connection
    ws_packet,              \* the packet on_packet was called with last
    ticks,                  \* BitmexWebsocketApi.ticks: symbol -> TickData
    orders,                 \* BitmexWebsocketApi.orders: venue order id -> OrderData
    accounts,               \* BitmexWebsocketApi.accounts: account id -> AccountData
    trades,                 \* BitmexWebsocketApi.trades: the trade ids seen
    ws_emitted,             \* what the stream handlers gave the host, in order
    cooldown                \* the timer events still owed to the last Retry-After

restVarsButLast == <<rate_limit_limit, rate_limit_remaining, rate_limit_sleep,
                     order_count, connect_time, connected, requests, order_objs,
                     emitted>>

restVars == <<restVarsButLast, last>>

histVars == <<hist_pc, hist_req, hist_start_time, hist_history, hist_served>>

sessionVars == <<active, ws_started, ws_conn, ws_connects, ws_received, ws_sent,
                 ws_invalid_seen, ws_acked, ws_packet>>

cacheVars == <<ticks, orders, accounts, trades, ws_emitted>>

wsVars == <<sessionVars, cacheVars>>

\* what the handlers of BitmexRestApi other than query_history leave alone
nonRest == <<histVars, th, wsVars, cooldown>>

vars == <<restVars, histVars, th, wsVars, cooldown>>

(***************************************************************************)
(* str(int) and str.isdigit(): a string is a sequence of characters.       *)
(***************************************************************************)
DigitChars == <<"0", "1", "2", "3", "4", "5", "6", "7", "8", "9">>

RECURSIVE Str(_)
Str(n) ==
    IF n < 0 THEN <<"-">> \o Str(-n)
    ELSE IF n < 10 THEN <<DigitChars[n + 1]>>
    ELSE Str(n \div 10) \o <<DigitChars[(n % 10) + 1]>>

DigitValue(c) == CHOOSE d \in 0..9 : DigitChars[d + 1] = c

isdigit(s) ==
    /\ Len(s) > 0
    /\ \A i \in 1..Len(s) : \E d \in 1..10 : DigitChars[d] = s[i]

\* int(s) of a string of digits
RECURSIVE ParseInt(_)
ParseInt(s) ==
    IF Len(s) = 1 THEN DigitValue(s[1])
    ELSE 10 * ParseInt(SubSeq(s, 1, Len(s) - 1)) + DigitValue(s[Len(s)])

\* the "" of `return ""`
EmptyId == <<>>

(***************************************************************************)
(* Responses of the venue.  Headers are a function from header names to    *)
(* the integers int() parses; Retry-After is optional.                     *)
(***************************************************************************)
\* x-ratelimit-remaining values: exhausted, and above the default limit (the
\* venue's own limit may be larger than 60)
ServerRemaining == {0, DefaultRateLimit + 1}

Headers ==
    { [h \in {"x-ratelimit-remaining"} |-> r] : r \in ServerRemaining }
    \cup
    { [h \in {"x-ratelimit-remaining", "Retry-After"} |->
          IF h = "Retry-After" THEN v ELSE r] :
        r \in ServerRemaining, v \in 0..MaxRetryAfter }

\* headers.get(key, default)
HeaderGet(headers, key, default) ==
    IF key \in DOMAIN headers THEN headers[key] ELSE default

\* int(datetime.now().strftime("%y%m%d%H%M%S")) at connect: two clock readings
Epochs == {1, 2}

ExceptionTypes == {"ConnectionError", "Exception"}

\* issubclass(exception_type, ConnectionError)
IsConnectionError(exception_type) == exception_type = "ConnectionError"

(***************************************************************************)
(* Rate governor.                                                          *)
(***************************************************************************)
\* check_rate_limit without the test of rate_limit_sleep
check_rate_limit_ok_no_sleep_test(sleep, remaining) ==
    IF remaining = 0 THEN FALSE ELSE TRUE

\* check_rate_limit: `if self.rate_limit_sleep`
SleepBlocks(sleep) == sleep # 0

\* check_rate_limit: `elif not self.rate_limit_remaining`
NoQuota(remaining) == remaining = 0

\* check_rate_limit: the two tests that return False
check_rate_limit_ok(sleep, remaining) ==
    IF SleepBlocks(sleep) THEN FALSE
    ELSE IF NoQuota(remaining) THEN FALSE
    ELSE TRUE

\* check_rate_limit: self.rate_limit_remaining after the call
check_rate_limit_remaining(sleep, remaining) ==
    IF check_rate_limit_ok(sleep, remaining) THEN remaining - 1 ELSE remaining

\* update_rate_limit reading the wrong header
update_remaining_wrong_header(headers) == HeaderGet(headers, "Retry-After", 0)

\* update_rate_limit: self.rate_limit_remaining = int(headers["x-ratelimit-remaining"])
update_remaining(headers) == headers["x-ratelimit-remaining"]

\* update_rate_limit: self.rate_limit_sleep after the call
update_sleep(headers) ==
    LET s == HeaderGet(headers, "Retry-After", 0)
    IN  IF s # 0 THEN s + 1 ELSE s

\* reset_rate_limit: self.rate_limit_remaining after the call
reset_remaining(remaining, limit) ==
    LET r == remaining + 1
    IN  IF r <= limit THEN r ELSE limit

\* reset_rate_limit: self.rate_limit_sleep after the call
reset_sleep(sleep) == IF sleep # 0 THEN sleep - 1 ELSE sleep

(***************************************************************************)
(* Order requests of the host and the objects made from them.              *)
(***************************************************************************)
OrderRequests ==
    { [type |-> "LIMIT", offset |-> "NONE"],
      [type |-> "STOP", offset |-> "CLOSE"] }

\* send_order: the special instructions, joined into execInst
ExecInst(req) ==
    (IF req.type = "STOP" THEN <<"LastPrice">> ELSE <<>>)
    \o (IF req.offset = "CLOSE" THEN <<"ReduceOnly">> ELSE <<>>)

\* send_order: the request body
OrderBody(req, orderid) ==
    [ordType |-> req.type,
     clOrdID |-> orderid,
     priceKey |-> IF req.type = "LIMIT" THEN "price"
                  ELSE IF req.type = "STOP" THEN "stopPx" ELSE "none",
     execInst |-> ExecInst(req)]

\* OrderRequest.create_order_data: a new OrderData, status SUBMITTING
create_order_data(req, orderid) ==
    [orderid |-> orderid, status |-> "SUBMITTING"]

\* _new_order_id without its increment
new_order_id_no_increment(count) == count

\* _new_order_id, under order_count_lock: the incremented counter
new_order_id(count) == count + 1

\* str(self.connect_time + self._new_order_id())
make_orderid(ctime, count) == Str(ctime + new_order_id(count))

\* gateway.on_order(order): the host gets the object itself (no copy)
Emit(ref, objs) == [kind |-> "order", ref |-> ref, status |-> objs[ref].status]

\* the handler that ran last: its name, what it returned (an order id, or the
\* bars of query_history), the outcome of its test, and the requests it
\* handed to the transport
Last(op, ret, ok, sent) ==
    [op |-> op, ret |-> ret, ok |-> ok, sent |-> sent, exc |-> "", headers |-> <<>>]

\* a callback of the REST worker that ran last: the order id of request.extra,
\* whether self.on_error logged, the exception type and the response headers
LastCallback(op, ret, ok, exc, headers) ==
    [op |-> op, ret |-> ret, ok |-> ok, sent |-> <<>>, exc |-> exc, headers |-> headers]

(***************************************************************************)
(* Initial state: BitmexRestApi.__init__.                                  *)
(***************************************************************************)
RestInit ==
    /\ rate_limit_limit = DefaultRateLimit
    /\ rate_limit_remaining = DefaultRateLimit
    /\ rate_limit_sleep = 0
    /\ order_count = InitialOrderCount
    /\ connect_time = 0
    /\ connected = FALSE
    /\ requests = <<>>
    /\ order_objs = <<>>
    /\ emitted = <<>>
    /\ last = Last("init", EmptyId, TRUE, <<>>)

\* no history query is running
HistInit ==
    /\ hist_pc = "idle"
    /\ hist_req = [interval |-> "MINUTE", start |-> 0, end |-> <<>>]
    /\ hist_start_time = 0
    /\ hist_history = <<>>
    /\ hist_served = <<>>

\* the threads that run the handlers concurrently: callers of send_order,
\* the event engine's timer, a worker of the REST session pool
Callers == {"caller1", "caller2"}
Threads == Callers \cup {"timer", "worker"}

Idle == [pc |-> "idle", tmp |-> 0, n |-> 0, oid |-> EmptyId, ref |-> 0,
         kind |-> "", headers |-> <<>>]

ThInit == th = [t \in Threads |-> Idle]

\* BitmexWebsocketApi.__init__: nothing started, nothing sent
WsInit ==
    /\ active = FALSE
    /\ ws_started = FALSE
    /\ ws_conn = "down"
    /\ ws_connects = 0
    /\ ws_received = 0
    /\ ws_sent = <<>>
    /\ ws_invalid_seen = FALSE
    /\ ws_acked = 0
    /\ ws_packet = <<>>
    /\ ticks = <<>>
    /\ orders = <<>>
    /\ accounts = <<>>
    /\ trades = {}
    /\ ws_emitted = <<>>

\* no response has carried a Retry-After
GovernorInit == cooldown = 0

Init == RestInit /\ HistInit /\ ThInit /\ WsInit /\ GovernorInit

(***************************************************************************)
(* REST handlers, each run to completion.                                  *)
(***************************************************************************)
\* BitmexRestApi.connect: connect_time from the clock, times order_count
connect(epoch) ==
    /\ UNCHANGED nonRest
    /\ ~connected
    /\ connect_time' = epoch * order_count
    /\ connected' = TRUE
    /\ last' = Last("connect", EmptyId, TRUE, <<>>)
    /\ UNCHANGED <<rate_limit_limit, rate_limit_remaining, rate_limit_sleep,
                   order_count, requests, order_objs, emitted>>

\* BitmexGateway.process_timer_event -> reset_rate_limit
reset_rate_limit ==
    /\ UNCHANGED nonRest
    /\ rate_limit_remaining' = reset_remaining(rate_limit_remaining, rate_limit_limit)
    /\ rate_limit_sleep' = reset_sleep(rate_limit_sleep)
    /\ last' = Last("reset_rate_limit", EmptyId, TRUE, <<>>)
    /\ UNCHANGED <<rate_limit_limit, order_count, connect_time, connected,
                   requests, order_objs, emitted>>

\* BitmexRestApi.send_order
send_order(req) ==
    /\ UNCHANGED nonRest
    /\ connected
    /\ IF ~check_rate_limit_ok(rate_limit_sleep, rate_limit_remaining)
       THEN /\ last' = Last("send_order", EmptyId, FALSE, <<>>)
            /\ UNCHANGED <<rate_limit_limit, rate_limit_remaining, rate_limit_sleep,
                           order_count, connect_time, connected, requests,
                           order_objs, emitted>>
       ELSE /\ order_count < InitialOrderCount + MaxOrders
            /\ Len(requests) < MaxInFlight
            /\ LET orderid == make_orderid(connect_time, order_count)
                   order == create_order_data(req, orderid)
                   objs == Append(order_objs, order)
                   ref == Len(objs)
               IN  /\ rate_limit_remaining' =
                          check_rate_limit_remaining(rate_limit_sleep, rate_limit_remaining)
                   /\ order_count' = new_order_id(order_count)
                   /\ order_objs' = objs
                   /\ requests' = Append(requests, [method |-> "POST", extra |-> ref])
                   /\ emitted' = Append(emitted, Emit(ref, objs))
                   /\ last' = Last("send_order", orderid, TRUE,
                          <<[method |-> "POST", path |-> "/order",
                             data |-> OrderBody(req, orderid)]>>)
            /\ UNCHANGED <<rate_limit_limit, rate_limit_sleep, connect_time, connected>>

\* cancel_order without its isdigit test: every id is sent as a client id
CancelParams_always_client(orderid) == [key |-> "clOrdID", id |-> orderid]

\* cancel_order: the key of the DELETE and the id under it
CancelParams(orderid) ==
    [key |-> IF isdigit(orderid) THEN "clOrdID" ELSE "orderID", id |-> orderid]

\* BitmexRestApi.cancel_order
cancel_order(orderid) ==
    /\ UNCHANGED nonRest
    /\ connected
    /\ IF ~check_rate_limit_ok(rate_limit_sleep, rate_limit_remaining)
       THEN /\ last' = Last("cancel_order", EmptyId, FALSE, <<>>)
            /\ UNCHANGED <<rate_limit_limit, rate_limit_remaining, rate_limit_sleep,
                           order_count, connect_time, connected, requests,
                           order_objs, emitted>>
       ELSE /\ Len(requests) < MaxInFlight
            /\ rate_limit_remaining' =
                   check_rate_limit_remaining(rate_limit_sleep, rate_limit_remaining)
            /\ requests' = Append(requests, [method |-> "DELETE", extra |-> 0])
            /\ last' = Last("cancel_order", EmptyId, TRUE,
                   <<[method |-> "DELETE", path |-> "/order",
                      params |-> CancelParams(orderid)]>>)
            /\ UNCHANGED <<rate_limit_limit, rate_limit_sleep, order_count,
                           connect_time, connected, order_objs, emitted>>

\* the request at place i leaves the queue: its callback runs once
Answered(i) == [j \in 1..(Len(requests) - 1) |->
                   IF j < i THEN requests[j] ELSE requests[j + 1]]

\* update_rate_limit(request), request.response given (None: has_response FALSE)
update_rate_limit(has_response, headers) ==
    IF ~has_response
    THEN UNCHANGED <<rate_limit_remaining, rate_limit_sleep>>
    ELSE /\ rate_limit_remaining' = update_remaining(headers)
         /\ rate_limit_sleep' = update_sleep(headers)

\* the callback without `order.status = Status.REJECTED`
set_rejected_skipped(objs, ref) == objs

\* on_send_order_failed / on_send_order_error: order.status = Status.REJECTED
set_rejected(objs, ref) == [objs EXCEPT ![ref].status = "REJECTED"]

\* BitmexRestApi.on_send_order: a 2xx answer to POST /order
on_send_order(i, headers) ==
    /\ UNCHANGED nonRest
    /\ i \in 1..Len(requests)
    /\ requests[i].method = "POST"
    /\ update_rate_limit(TRUE, headers)
    /\ requests' = Answered(i)
    /\ last' = LastCallback("on_send_order", order_objs[requests[i].extra].orderid,
                           TRUE, "", headers)
    /\ UNCHANGED <<rate_limit_limit, order_count, connect_time, connected,
                   order_objs, emitted>>

\* BitmexRestApi.on_send_order_failed: a non-2xx answer to POST /order
on_send_order_failed(i, headers) ==
    /\ UNCHANGED nonRest
    /\ i \in 1..Len(requests)
    /\ requests[i].method = "POST"
    /\ update_rate_limit(TRUE, headers)
    /\ LET ref == requests[i].extra
           objs == set_rejected(order_objs, ref)
       IN  /\ order_objs' = objs
           /\ emitted' = Append(emitted, Emit(ref, objs))
           /\ last' = LastCallback("on_send_order_failed", objs[ref].orderid,
                                   TRUE, "", headers)
    /\ requests' = Answered(i)
    /\ UNCHANGED <<rate_limit_limit, order_count, connect_time, connected>>

\* BitmexRestApi.on_send_order_error: POST /order ended in an exception;
\* ok records whether self.on_error logged the exception
on_send_order_error(i, exception_type) ==
    /\ UNCHANGED nonRest
    /\ i \in 1..Len(requests)
    /\ requests[i].method = "POST"
    /\ LET ref == requests[i].extra
           objs == set_rejected(order_objs, ref)
       IN  /\ order_objs' = objs
           /\ emitted' = Append(emitted, Emit(ref, objs))
           /\ last' = LastCallback("on_send_order_error", objs[ref].orderid,
                  ~IsConnectionError(exception_type), exception_type, <<>>)
    /\ requests' = Answered(i)
    /\ UNCHANGED <<rate_limit_limit, rate_limit_remaining, rate_limit_sleep,
                   order_count, connect_time, connected>>

\* BitmexRestApi.on_cancel_order: a 2xx answer to DELETE /order
on_cancel_order(i, headers) ==
    /\ UNCHANGED nonRest
    /\ i \in 1..Len(requests)
    /\ requests[i].method = "DELETE"
    /\ update_rate_limit(TRUE, headers)
    /\ requests' = Answered(i)
    /\ last' = LastCallback("on_cancel_order", EmptyId, TRUE, "", headers)
    /\ UNCHANGED <<rate_limit_limit, order_count, connect_time, connected,
                   order_objs, emitted>>

\* BitmexRestApi.on_failed: a non-2xx answer to DELETE /order (no on_failed given)
on_failed(i, headers) ==
    /\ UNCHANGED nonRest
    /\ i \in 1..Len(requests)
    /\ requests[i].method = "DELETE"
    /\ update_rate_limit(TRUE, headers)
    /\ requests' = Answered(i)
    /\ last' = LastCallback("on_failed", EmptyId, TRUE, "", headers)
    /\ UNCHANGED <<rate_limit_limit, order_count, connect_time, connected,
                   order_objs, emitted>>

\* BitmexRestApi.on_cancel_order_error: DELETE /order ended in an exception
on_cancel_order_error(i, exception_type) ==
    /\ UNCHANGED nonRest
    /\ i \in 1..Len(requests)
    /\ requests[i].method = "DELETE"
    /\ requests' = Answered(i)
    /\ last' = LastCallback("on_cancel_order_error", EmptyId,
                   ~IsConnectionError(exception_type), exception_type, <<>>)
    /\ UNCHANGED <<rate_limit_limit, rate_limit_remaining, rate_limit_sleep,
                   order_count, connect_time, connected, order_objs, emitted>>

\* ids the host may ask to cancel: issued client ids and a venue id
CancelIds == {Str(InitialOrderCount + InitialOrderCount + 1),
              <<"a", "1", "-", "9">>}

RestNext ==
    \/ \E epoch \in Epochs : connect(epoch)
    \/ reset_rate_limit
    \/ \E req \in OrderRequests : send_order(req)
    \/ \E orderid \in CancelIds : cancel_order(orderid)
    \/ \E i \in 1..MaxInFlight, headers \in Headers : on_send_order(i, headers)
    \/ \E i \in 1..MaxInFlight, headers \in Headers : on_send_order_failed(i, headers)
    \/ \E i \in 1..MaxInFlight, e \in ExceptionTypes : on_send_order_error(i, e)
    \/ \E i \in 1..MaxInFlight, headers \in Headers : on_cancel_order(i, headers)
    \/ \E i \in 1..MaxInFlight, headers \in Headers : on_failed(i, headers)
    \/ \E i \in 1..MaxInFlight, e \in ExceptionTypes : on_cancel_order_error(i, e)

Next == RestNext

Spec == Init /\ [][Next]_vars

(***************************************************************************)
(* query_history.  self.request blocks the caller until the venue answers; *)
(* the timer and the callbacks of other requests run in between.  Times    *)
(* are counted in minutes.                                                 *)
(***************************************************************************)
\* TIMEDELTA_MAP, in minutes
TIMEDELTA_MAP(interval) ==
    IF interval = "MINUTE" THEN 1 ELSE IF interval = "HOUR" THEN 60 ELSE 1440

\* INTERVAL_VT2BITMEX
INTERVAL_VT2BITMEX(interval) ==
    IF interval = "MINUTE" THEN "1m" ELSE IF interval = "HOUR" THEN "1h" ELSE "1d"

HistoryRequests ==
    { [interval |-> "MINUTE", start |-> 0, end |-> <<>>],
      [interval |-> "HOUR", start |-> 60, end |-> <<600000>>] }

\* query_history: the query params of one page
PageParams(req, start_time) ==
    [binSize |-> INTERVAL_VT2BITMEX(req.interval), count |-> PageCount,
     startTime |-> start_time, endTime |-> req.end]

PageRequest(req, start_time) ==
    [method |-> "GET", path |-> "/trade/bucketed", params |-> PageParams(req, start_time)]

\* the rows of a page: n buckets from `first` on, one per interval
Rows(first, n, delta) == [k \in 1..n |-> first + (k - 1) * delta]

\* a page as served: the status class, and n rows from `first` on
PageData(page, delta) ==
    IF page.ok THEN Rows(page.first, page.n, delta) ELSE <<>>

\* query_history: `break` after this page
LastPage(ok, data) ==
    IF ~ok THEN TRUE
    ELSE IF Len(data) = 0 THEN TRUE
    ELSE Len(data) < PageCount

\* the cursor left on the last bar received
NextStartTime_last_bar(data, interval) == data[Len(data)]

\* query_history: start_time = bar.datetime + TIMEDELTA_MAP[req.interval]
NextStartTime(data, interval) == data[Len(data)] + TIMEDELTA_MAP(interval)

\* BitmexRestApi.query_history, up to the first self.request
query_history(req) ==
    /\ connected
    /\ hist_pc = "idle"
    /\ hist_req' = req
    /\ hist_served' = <<>>
    /\ hist_history' = <<>>
    /\ hist_start_time' = req.start
    /\ IF ~check_rate_limit_ok(rate_limit_sleep, rate_limit_remaining)
       THEN /\ hist_pc' = "idle"
            /\ last' = Last("query_history", EmptyId, FALSE, <<>>)
            /\ UNCHANGED rate_limit_remaining
       ELSE /\ rate_limit_remaining' =
                   check_rate_limit_remaining(rate_limit_sleep, rate_limit_remaining)
            /\ hist_pc' = "waiting"
            /\ last' = Last("query_history", EmptyId, TRUE,
                            <<PageRequest(req, req.start)>>)
    /\ UNCHANGED <<rate_limit_limit, rate_limit_sleep, order_count, connect_time,
                   connected, requests, order_objs, emitted, th, wsVars, cooldown>>

\* query_history from the answer to one page to the next self.request or
\* to `return history`
history_page(page) ==
    /\ hist_pc = "waiting"
    /\ LET delta == TIMEDELTA_MAP(hist_req.interval)
           data == PageData(page, delta)
           history == hist_history \o data
       IN  /\ hist_served' = Append(hist_served, page)
           /\ IF LastPage(page.ok, data)
              THEN /\ hist_pc' = "idle"
                   /\ hist_history' = <<>>
                   /\ last' = Last("query_history_return", history, TRUE, <<>>)
                   /\ UNCHANGED hist_start_time
              ELSE /\ hist_pc' = "waiting"
                   /\ hist_history' = history
                   /\ hist_start_time' = NextStartTime(data, hist_req.interval)
                   /\ last' = Last("query_history_page", EmptyId, TRUE,
                          <<PageRequest(hist_req,
                                        NextStartTime(data, hist_req.interval))>>)
    /\ UNCHANGED <<restVarsButLast, hist_req, th, wsVars, cooldown>>

\* what the venue may answer to the page asked for: a non-2xx status, an
\* empty body, a short page or (MaxFullPages times per query) a full page,
\* its first row at the start asked for or one interval later
Pages ==
    LET delta == TIMEDELTA_MAP(hist_req.interval)
        full == Cardinality({k \in 1..Len(hist_served) :
                                hist_served[k].ok /\ hist_served[k].n = PageCount})
    IN  { [ok |-> ok, first |-> hist_start_time, n |-> 0] : ok \in BOOLEAN }
        \cup
        { [ok |-> TRUE, first |-> hist_start_time + gap * delta, n |-> n] :
            gap \in {0, 1},
            n \in {ShortRows} \cup (IF full < MaxFullPages THEN {PageCount} ELSE {}) }

HistoryNext ==
    \/ \E epoch \in Epochs : connect(epoch)
    \/ reset_rate_limit
    \/ \E orderid \in CancelIds : cancel_order(orderid)
    \/ \E i \in 1..MaxInFlight, headers \in Headers : on_cancel_order(i, headers)
    \/ \E req \in HistoryRequests : query_history(req)
    \/ \E page \in Pages : history_page(page)

SpecHistory == Init /\ [][HistoryNext]_vars

(***************************************************************************)
(* The rate governor under the traffic of requests and their answers:      *)
(* requests are sent while check_rate_limit allows, each answer is         *)
(* observed by update_rate_limit, and the timer calls reset_rate_limit.    *)
(* cooldown counts the timer events still owed to the Retry-After values   *)
(* observed.                                                               *)
(***************************************************************************)
\* the timer events owed once this response has been observed: one more than
\* the seconds of its Retry-After, if that is more than is owed already
Owed(owed, headers) ==
    LET v == HeaderGet(headers, "Retry-After", 0)
    IN  IF v > 0 /\ v + 1 > owed THEN v + 1 ELSE owed

\* on_send_order / on_cancel_order: update_rate_limit(request) for the answer
\* to a request in flight; request.response is None when has_response is FALSE
observe(i, has_response, headers) ==
    /\ i \in 1..Len(requests)
    /\ requests' = Answered(i)
    /\ update_rate_limit(has_response, headers)
    /\ cooldown' = IF has_response THEN Owed(cooldown, headers) ELSE cooldown
    /\ last' = LastCallback("update_rate_limit", EmptyId, has_response, "", headers)
    /\ UNCHANGED <<rate_limit_limit, order_count, connect_time, connected,
                   order_objs, emitted, histVars, th, wsVars>>

\* process_timer_event -> reset_rate_limit
process_timer_event ==
    /\ rate_limit_remaining' = reset_remaining(rate_limit_remaining, rate_limit_limit)
    /\ rate_limit_sleep' = reset_sleep(rate_limit_sleep)
    /\ cooldown' = IF cooldown > 0 THEN cooldown - 1 ELSE 0
    /\ last' = Last("reset_rate_limit", EmptyId, TRUE, <<>>)
    /\ UNCHANGED <<rate_limit_limit, order_count, connect_time, connected,
                   requests, order_objs, emitted, histVars, th, wsVars>>

GovernorNext ==
    \/ \E epoch \in Epochs : connect(epoch)
    \/ \E req \in OrderRequests : send_order(req)
    \/ \E orderid \in CancelIds : cancel_order(orderid)
    \/ \E i \in 1..MaxInFlight, has_response \in BOOLEAN, headers \in Headers :
           observe(i, has_response, headers)
    \/ process_timer_event

SpecGovernor == Init /\ [][GovernorNext]_vars

(***************************************************************************)
(* The same handlers, thread by thread.  CPython switches threads between  *)
(* bytecodes: `self.x -= 1` is a load of self.x and, later, a store, and   *)
(* only _new_order_id holds a lock.  A step below is one read or one write *)
(* of a shared field (or the locked block).                                *)
(***************************************************************************)
At(t, label) == th[t].pc = label

\* a thread back at "idle" has dropped its locals; n counts its calls
Goto(t, label) ==
    th' = [th EXCEPT ![t] = IF label = "idle" THEN [Idle EXCEPT !.n = th[t].n]
                            ELSE [th[t] EXCEPT !.pc = label]]

concShared == <<rate_limit_limit, rate_limit_remaining, rate_limit_sleep, order_count,
                connect_time, connected, requests, order_objs, emitted>>

\* a caller enters send_order -> check_rate_limit
c_call(c) ==
    /\ connected
    /\ At(c, "idle")
    /\ th[c].n < MaxCalls
    /\ th' = [th EXCEPT ![c] = [Idle EXCEPT !.pc = "check_sleep", !.n = th[c].n + 1]]
    /\ UNCHANGED <<concShared, last, histVars, wsVars, cooldown>>

\* check_rate_limit: `if self.rate_limit_sleep: return False` -> return ""
c_check_sleep(c) ==
    /\ At(c, "check_sleep")
    /\ Goto(c, IF SleepBlocks(rate_limit_sleep) THEN "idle" ELSE "check_remaining")
    /\ UNCHANGED <<concShared, last, histVars, wsVars, cooldown>>

\* check_rate_limit: `elif not self.rate_limit_remaining: return False`
c_check_remaining(c) ==
    /\ At(c, "check_remaining")
    /\ Goto(c, IF NoQuota(rate_limit_remaining) THEN "idle" ELSE "load_remaining")
    /\ UNCHANGED <<concShared, last, histVars, wsVars, cooldown>>

\* check_rate_limit: `self.rate_limit_remaining -= 1`, the load
c_load_remaining(c) ==
    /\ At(c, "load_remaining")
    /\ th' = [th EXCEPT ![c].pc = "store_remaining", ![c].tmp = rate_limit_remaining]
    /\ UNCHANGED <<concShared, last, histVars, wsVars, cooldown>>

\* check_rate_limit: `self.rate_limit_remaining -= 1`, the store; return True
c_store_remaining(c) ==
    /\ At(c, "store_remaining")
    /\ rate_limit_remaining' = th[c].tmp - 1
    /\ Goto(c, "submit")
    /\ UNCHANGED <<rate_limit_limit, rate_limit_sleep, order_count, connect_time,
                   connected, requests, order_objs, emitted, last, histVars, wsVars, cooldown>>

\* send_order after check_rate_limit returned True, to its return: the order
\* id, the order, add_request and gateway.on_order (fields the rate governor
\* does not read)
c_submit(c, req) ==
    /\ At(c, "submit")
    /\ Len(requests) < MaxInFlight
    /\ LET orderid == make_orderid(connect_time, order_count)
           objs == Append(order_objs, create_order_data(req, orderid))
       IN  /\ order_count' = new_order_id(order_count)
           /\ order_objs' = objs
           /\ requests' = Append(requests, [method |-> "POST", extra |-> Len(objs)])
           /\ emitted' = Append(emitted, Emit(Len(objs), objs))
    /\ Goto(c, "idle")
    /\ UNCHANGED <<rate_limit_limit, rate_limit_remaining, rate_limit_sleep,
                   connect_time, connected, last, histVars, wsVars, cooldown>>

\* the event engine calls process_timer_event -> reset_rate_limit
t_call ==
    /\ At("timer", "idle")
    /\ th["timer"].n < MaxTicks
    /\ th' = [th EXCEPT !["timer"].pc = "load_remaining",
                        !["timer"].n = th["timer"].n + 1]
    /\ UNCHANGED <<concShared, last, histVars, wsVars, cooldown>>

\* reset_rate_limit: `self.rate_limit_remaining += 1`, the load
t_load_remaining ==
    /\ At("timer", "load_remaining")
    /\ th' = [th EXCEPT !["timer"].pc = "store_remaining",
                        !["timer"].tmp = rate_limit_remaining]
    /\ UNCHANGED <<concShared, last, histVars, wsVars, cooldown>>

\* reset_rate_limit: `self.rate_limit_remaining += 1`, the store
t_store_remaining ==
    /\ At("timer", "store_remaining")
    /\ rate_limit_remaining' = th["timer"].tmp + 1
    /\ Goto("timer", "load_min")
    /\ UNCHANGED <<rate_limit_limit, rate_limit_sleep, order_count, connect_time,
                   connected, requests, order_objs, emitted, last, histVars, wsVars, cooldown>>

\* reset_rate_limit: min(self.rate_limit_remaining, self.rate_limit_limit), the load
t_load_min ==
    /\ At("timer", "load_min")
    /\ th' = [th EXCEPT !["timer"].pc = "store_min",
                        !["timer"].tmp = rate_limit_remaining]
    /\ UNCHANGED <<concShared, last, histVars, wsVars, cooldown>>

\* reset_rate_limit: self.rate_limit_remaining = min(...), the store
t_store_min ==
    /\ At("timer", "store_min")
    /\ rate_limit_remaining' =
           IF th["timer"].tmp <= rate_limit_limit THEN th["timer"].tmp
           ELSE rate_limit_limit
    /\ Goto("timer", "check_sleep")
    /\ UNCHANGED <<rate_limit_limit, rate_limit_sleep, order_count, connect_time,
                   connected, requests, order_objs, emitted, last, histVars, wsVars, cooldown>>

\* reset_rate_limit: `if self.rate_limit_sleep`
t_check_sleep ==
    /\ At("timer", "check_sleep")
    /\ Goto("timer", IF rate_limit_sleep # 0 THEN "load_sleep" ELSE "idle")
    /\ UNCHANGED <<concShared, last, histVars, wsVars, cooldown>>

\* reset_rate_limit: `self.rate_limit_sleep -= 1`, the load
t_load_sleep ==
    /\ At("timer", "load_sleep")
    /\ th' = [th EXCEPT !["timer"].pc = "store_sleep",
                        !["timer"].tmp = rate_limit_sleep]
    /\ UNCHANGED <<concShared, last, histVars, wsVars, cooldown>>

\* reset_rate_limit: `self.rate_limit_sleep -= 1`, the store
t_store_sleep ==
    /\ At("timer", "store_sleep")
    /\ rate_limit_sleep' = th["timer"].tmp - 1
    /\ Goto("timer", "idle")
    /\ UNCHANGED <<rate_limit_limit, rate_limit_remaining, order_count, connect_time,
                   connected, requests, order_objs, emitted, last, histVars, wsVars, cooldown>>

\* the worker takes the answer to a request and enters its callback:
\* on_send_order (2xx), on_send_order_failed (non-2xx), on_send_order_error
w_take(i, kind, headers) ==
    /\ At("worker", "idle")
    /\ i \in 1..Len(requests)
    /\ requests' = Answered(i)
    /\ th' = [th EXCEPT !["worker"] =
                 [Idle EXCEPT !.pc = IF kind = "on_send_order_error"
                                     THEN "reject" ELSE "update_remaining",
                              !.kind = kind,
                              !.ref = requests[i].extra,
                              !.headers = IF kind = "on_send_order_error"
                                          THEN <<>> ELSE headers]]
    /\ UNCHANGED <<rate_limit_limit, rate_limit_remaining, rate_limit_sleep,
                   order_count, connect_time, connected, order_objs, emitted, last,
                   histVars, wsVars, cooldown>>

\* update_rate_limit: self.rate_limit_remaining = int(headers[...])
w_update_remaining ==
    /\ At("worker", "update_remaining")
    /\ rate_limit_remaining' = update_remaining(th["worker"].headers)
    /\ Goto("worker", "update_sleep")
    /\ UNCHANGED <<rate_limit_limit, rate_limit_sleep, order_count, connect_time,
                   connected, requests, order_objs, emitted, last, histVars, wsVars, cooldown>>

\* update_rate_limit: self.rate_limit_sleep = int(headers.get("Retry-After", 0))
w_update_sleep ==
    /\ At("worker", "update_sleep")
    /\ rate_limit_sleep' = HeaderGet(th["worker"].headers, "Retry-After", 0)
    /\ Goto("worker", "check_sleep")
    /\ UNCHANGED <<rate_limit_limit, rate_limit_remaining, order_count, connect_time,
                   connected, requests, order_objs, emitted, last, histVars, wsVars, cooldown>>

\* the callback after update_rate_limit
AfterUpdate == IF th["worker"].kind = "on_send_order" THEN "idle" ELSE "reject"

\* update_rate_limit: `if self.rate_limit_sleep`
w_check_sleep ==
    /\ At("worker", "check_sleep")
    /\ Goto("worker", IF rate_limit_sleep # 0 THEN "load_sleep" ELSE AfterUpdate)
    /\ UNCHANGED <<concShared, last, histVars, wsVars, cooldown>>

\* update_rate_limit: `self.rate_limit_sleep += 1`, the load
w_load_sleep ==
    /\ At("worker", "load_sleep")
    /\ th' = [th EXCEPT !["worker"].pc = "store_sleep",
                        !["worker"].tmp = rate_limit_sleep]
    /\ UNCHANGED <<concShared, last, histVars, wsVars, cooldown>>

\* update_rate_limit: `self.rate_limit_sleep += 1`, the store
w_store_sleep ==
    /\ At("worker", "store_sleep")
    /\ rate_limit_sleep' = th["worker"].tmp + 1
    /\ Goto("worker", AfterUpdate)
    /\ UNCHANGED <<rate_limit_limit, rate_limit_remaining, order_count, connect_time,
                   connected, requests, order_objs, emitted, last, histVars, wsVars, cooldown>>

\* on_send_order_failed / on_send_order_error after update_rate_limit:
\* order.status = Status.REJECTED; self.gateway.on_order(order)
w_reject ==
    /\ At("worker", "reject")
    /\ LET objs == set_rejected(order_objs, th["worker"].ref)
       IN  /\ order_objs' = objs
           /\ emitted' = Append(emitted, Emit(th["worker"].ref, objs))
    /\ Goto("worker", "idle")
    /\ UNCHANGED <<rate_limit_limit, rate_limit_remaining, rate_limit_sleep,
                   order_count, connect_time, connected, requests, last, histVars, wsVars, cooldown>>

CallbackKinds == {"on_send_order", "on_send_order_failed", "on_send_order_error"}

ConcNext ==
    \/ \E epoch \in Epochs : connect(epoch)
    \/ \E c \in Callers : c_call(c)
    \/ \E c \in Callers : c_check_sleep(c)
    \/ \E c \in Callers : c_check_remaining(c)
    \/ \E c \in Callers : c_load_remaining(c)
    \/ \E c \in Callers : c_store_remaining(c)
    \/ \E c \in Callers, req \in OrderRequests : c_submit(c, req)
    \/ t_call
    \/ t_load_remaining
    \/ t_store_remaining
    \/ t_load_min
    \/ t_store_min
    \/ t_check_sleep
    \/ t_load_sleep
    \/ t_store_sleep
    \/ \E i \in 1..MaxInFlight, kind \in CallbackKinds, headers \in Headers :
           w_take(i, kind, headers)
    \/ w_update_remaining
    \/ w_update_sleep
    \/ w_check_sleep
    \/ w_load_sleep
    \/ w_store_sleep
    \/ w_reject

SpecConc == Init /\ [][ConcNext]_vars

(***************************************************************************)
(* The timer and the worker, step by step, with a timer that never stops:  *)
(* the event engine calls process_timer_event every second for as long as  *)
(* the gateway runs.  send_order is one step here, and the orders and      *)
(* their answers stay bounded, so that from some point on no response is   *)
(* observed.                                                               *)
(***************************************************************************)
\* the event engine calls process_timer_event -> reset_rate_limit, again
t_call_again ==
    /\ At("timer", "idle")
    /\ th' = [th EXCEPT !["timer"].pc = "load_remaining"]
    /\ UNCHANGED <<concShared, last, histVars, wsVars, cooldown>>

\* reset_rate_limit: `self.rate_limit_sleep -= 1`, the store, with the values
\* at or below SleepFloor kept as one
t_store_sleep_floor ==
    /\ At("timer", "store_sleep")
    /\ rate_limit_sleep' = IF th["timer"].tmp - 1 < SleepFloor THEN SleepFloor
                           ELSE th["timer"].tmp - 1
    /\ Goto("timer", "idle")
    /\ UNCHANGED <<rate_limit_limit, rate_limit_remaining, order_count, connect_time,
                   connected, requests, order_objs, emitted, last, histVars, wsVars, cooldown>>

\* the steps of the timer thread
TimerNext ==
    \/ t_call_again
    \/ t_load_remaining
    \/ t_store_remaining
    \/ t_load_min
    \/ t_store_min
    \/ t_check_sleep
    \/ t_load_sleep
    \/ t_store_sleep_floor

\* the callbacks that observe a response: on_send_order_error has none
ResponseKinds == {"on_send_order", "on_send_order_failed"}

ConcLiveNext ==
    \/ connect(1)
    \/ \E req \in OrderRequests : send_order(req)
    \/ TimerNext
    \/ \E i \in 1..MaxInFlight, kind \in ResponseKinds, headers \in Headers :
           w_take(i, kind, headers)
    \/ w_update_remaining
    \/ w_update_sleep
    \/ w_check_sleep
    \/ w_load_sleep
    \/ w_store_sleep
    \/ w_reject

\* the timer fires for ever; the host and the worker may stop at any step
SpecConcLive ==
    /\ Init
    /\ [][ConcLiveNext]_vars
    /\ WF_vars(TimerNext)

(***************************************************************************)
(* send_order and the callbacks of its request, interleaved at the steps   *)
(* on the order fields.  The rate governor's fields are read and written   *)
(* by check_rate_limit and update_rate_limit only, taken here as one step  *)
(* each (SpecConc interleaves them).                                       *)
(***************************************************************************)
\* send_order: `if not self.check_rate_limit(): return ""`
o_check(c) ==
    /\ At(c, "check_sleep")
    /\ rate_limit_remaining' =
           check_rate_limit_remaining(rate_limit_sleep, rate_limit_remaining)
    /\ Goto(c, IF check_rate_limit_ok(rate_limit_sleep, rate_limit_remaining)
               THEN "new_order_id" ELSE "idle")
    /\ UNCHANGED <<rate_limit_limit, rate_limit_sleep, order_count, connect_time,
                   connected, requests, order_objs, emitted, last, histVars, wsVars, cooldown>>

\* send_order: orderid = str(self.connect_time + self._new_order_id()); the
\* increment and the read of order_count are one step, under order_count_lock
o_new_order_id(c) ==
    /\ At(c, "new_order_id")
    /\ order_count < InitialOrderCount + MaxOrders
    /\ order_count' = new_order_id(order_count)
    /\ th' = [th EXCEPT ![c].pc = "add_request",
                        ![c].oid = make_orderid(connect_time, order_count)]
    /\ UNCHANGED <<rate_limit_limit, rate_limit_remaining, rate_limit_sleep,
                   connect_time, connected, requests, order_objs, emitted, last,
                   histVars, wsVars, cooldown>>

\* send_order: order = req.create_order_data(...); self.add_request(...)
o_add_request(c, req) ==
    /\ At(c, "add_request")
    /\ Len(requests) < MaxInFlight
    /\ LET objs == Append(order_objs, create_order_data(req, th[c].oid))
       IN  /\ order_objs' = objs
           /\ requests' = Append(requests, [method |-> "POST", extra |-> Len(objs)])
           /\ th' = [th EXCEPT ![c].pc = "emit", ![c].ref = Len(objs)]
    /\ UNCHANGED <<rate_limit_limit, rate_limit_remaining, rate_limit_sleep,
                   order_count, connect_time, connected, emitted, last, histVars, wsVars, cooldown>>

\* send_order: self.gateway.on_order(order); return order.vt_orderid
o_emit(c) ==
    /\ At(c, "emit")
    /\ emitted' = Append(emitted, Emit(th[c].ref, order_objs))
    /\ Goto(c, "idle")
    /\ UNCHANGED <<rate_limit_limit, rate_limit_remaining, rate_limit_sleep,
                   order_count, connect_time, connected, requests, order_objs, last,
                   histVars, wsVars, cooldown>>

\* the worker takes the answer to a request and enters its callback;
\* on_send_order and on_send_order_failed begin with update_rate_limit
o_answer(i, kind, headers) ==
    /\ At("worker", "idle")
    /\ i \in 1..Len(requests)
    /\ requests' = Answered(i)
    /\ update_rate_limit(kind # "on_send_order_error", headers)
    /\ th' = [th EXCEPT !["worker"] =
                 [Idle EXCEPT !.pc = IF kind = "on_send_order"
                                     THEN "idle" ELSE "set_rejected",
                              !.kind = IF kind = "on_send_order" THEN "" ELSE kind,
                              !.ref = IF kind = "on_send_order"
                                      THEN 0 ELSE requests[i].extra]]
    /\ UNCHANGED <<rate_limit_limit, order_count, connect_time, connected,
                   order_objs, emitted, last, histVars, wsVars, cooldown>>

\* on_send_order_failed / on_send_order_error: order.status = Status.REJECTED
o_set_rejected ==
    /\ At("worker", "set_rejected")
    /\ order_objs' = set_rejected(order_objs, th["worker"].ref)
    /\ Goto("worker", "emit")
    /\ UNCHANGED <<rate_limit_limit, rate_limit_remaining, rate_limit_sleep,
                   order_count, connect_time, connected, requests, emitted, last,
                   histVars, wsVars, cooldown>>

\* on_send_order_failed / on_send_order_error: self.gateway.on_order(order)
o_emit_rejected ==
    /\ At("worker", "emit")
    /\ emitted' = Append(emitted, Emit(th["worker"].ref, order_objs))
    /\ Goto("worker", "idle")
    /\ UNCHANGED <<rate_limit_limit, rate_limit_remaining, rate_limit_sleep,
                   order_count, connect_time, connected, requests, order_objs, last,
                   histVars, wsVars, cooldown>>

\* the answers to one request: a 2xx or a non-2xx response, or an exception
\* (no response, no headers)
Answers ==
    { <<kind, headers>> : kind \in {"on_send_order", "on_send_order_failed"},
                          headers \in Headers }
    \cup { <<"on_send_order_error", <<>> >> }

OrdersNext ==
    \/ \E epoch \in Epochs : connect(epoch)
    \/ \E c \in Callers : c_call(c)
    \/ \E c \in Callers : o_check(c)
    \/ \E c \in Callers : o_new_order_id(c)
    \/ \E c \in Callers, req \in OrderRequests : o_add_request(c, req)
    \/ \E c \in Callers : o_emit(c)
    \/ \E i \in 1..MaxInFlight, a \in Answers : o_answer(i, a[1], a[2])
    \/ o_set_rejected
    \/ o_emit_rejected

SpecOrders == Init /\ [][OrdersNext]_vars

(***************************************************************************)
(* The state caches of BitmexWebsocketApi and the callbacks of the topics. *)
(* A record of a message is a function from its keys to their values       *)
(* (`"k" in d` is k \in DOMAIN d); a cache is a function from its keys to  *)
(* the cached objects.  A callback maps the caches and what the host has   *)
(* been given so far to the same after the callback.                       *)
(***************************************************************************)
\* dict.get(key, default)
Get(d, key, default) == IF key \in DOMAIN d THEN d[key] ELSE default

\* cache[key] = obj
Put(cache, key, obj) ==
    [k \in DOMAIN cache \cup {key} |-> IF k = key THEN obj ELSE cache[k]]

\* the caches and the host's events, as one value
CacheState ==
    [ticks |-> ticks, orders |-> orders, accounts |-> accounts, trades |-> trades,
     emitted |-> ws_emitted]

\* datetime.strptime(d["timestamp"], "%Y-%m-%dT%H:%M:%S.%fZ")
strptime(timestamp) == [datetime |-> timestamp]

\* d["timestamp"][11:19]
TimeOfDay(timestamp) == [time |-> timestamp]

\* an object handed to the host that is the cached object itself
same_object(kind, key, obj) == [kind |-> kind, key |-> key, data |-> obj, cached |-> TRUE]

\* copy(obj): a new object with the field values obj has now; the fields of
\* TickData, OrderData and AccountData are numbers, strings and datetimes
copy(kind, key, obj) == [kind |-> kind, key |-> key, data |-> obj, cached |-> FALSE]

\* an object built in the callback and handed to the host, kept nowhere
fresh(kind, key, obj) == [kind |-> kind, key |-> key, data |-> obj, cached |-> FALSE]

Levels == 1..5

\* TickData(symbol, exchange, name, datetime, gateway_name): the prices and
\* volumes default to 0
TickData(symbol, now) ==
    [symbol |-> symbol, datetime |-> [datetime |-> now], last_price |-> 0,
     bid_price |-> [n \in Levels |-> 0], bid_volume |-> [n \in Levels |-> 0],
     ask_price |-> [n \in Levels |-> 0], ask_volume |-> [n \in Levels |-> 0]]

\* subscribe(req): a new TickData replaces what the cache has for the symbol
ws_subscribe(st, symbol, now) ==
    [st EXCEPT !.ticks = Put(st.ticks, symbol, TickData(symbol, now))]

\* on_tick: the "trade" topic
on_tick(st, d) ==
    IF d.symbol \notin DOMAIN st.ticks THEN st
    ELSE LET tick == [st.ticks[d.symbol] EXCEPT !.last_price = d.price,
                                                !.datetime = strptime(d.timestamp)]
         IN  [st EXCEPT !.ticks = Put(st.ticks, d.symbol, tick),
                        !.emitted = Append(st.emitted, copy("tick", d.symbol, tick))]

\* buf[:5]
FirstFive(buf) == SubSeq(buf, 1, IF Len(buf) < 5 THEN Len(buf) ELSE 5)

\* SetLevels without the [:5]: every level of the message sets an attribute
SetLevels_no_slice(old, levels, i) ==
    [n \in DOMAIN old \cup (1..Len(levels)) |->
         IF n <= Len(levels) THEN levels[n][i] ELSE old[n]]

\* for n, buf in enumerate(levels[:5]): setattr(tick, "..._%s" % (n + 1), buf[i])
\* where old maps n to the attribute ..._n of the tick
SetLevels(old, levels, i) ==
    [n \in DOMAIN old \cup (1..Len(FirstFive(levels))) |->
         IF n <= Len(FirstFive(levels)) THEN FirstFive(levels)[n][i] ELSE old[n]]

\* on_depth: the "orderBook10" topic
on_depth(st, d) ==
    IF d.symbol \notin DOMAIN st.ticks THEN st
    ELSE LET old == st.ticks[d.symbol]
             tick == [old EXCEPT !.bid_price = SetLevels(old.bid_price, d.bids, 1),
                                 !.bid_volume = SetLevels(old.bid_volume, d.bids, 2),
                                 !.ask_price = SetLevels(old.ask_price, d.asks, 1),
                                 !.ask_volume = SetLevels(old.ask_volume, d.asks, 2),
                                 !.datetime = strptime(d.timestamp)]
         IN  [st EXCEPT !.ticks = Put(st.ticks, d.symbol, tick),
                        !.emitted = Append(st.emitted, copy("tick", d.symbol, tick))]

\* DIRECTION_BITMEX2VT
DIRECTION_BITMEX2VT == [Buy |-> "LONG", Sell |-> "SHORT"]

\* ResolveOrderId that never looks at the client id
ResolveOrderId_venue_only(d) == d.orderID

\* `if d["clOrdID"]: orderid = d["clOrdID"] else: orderid = d["orderID"]`
ResolveOrderId(d) == IF d.clOrdID # EmptyId THEN d.clOrdID ELSE d.orderID

\* on_trade without the test of lastQty and side
on_trade_no_filter(st, d) ==
    IF d.execID \in st.trades THEN st
    ELSE LET trade == [orderid |-> ResolveOrderId(d), tradeid |-> d.execID,
                       direction |-> Get(DIRECTION_BITMEX2VT, d.side, ""),
                       price |-> d.lastPx, volume |-> d.lastQty,
                       time |-> TimeOfDay(d.timestamp)]
         IN  [st EXCEPT !.trades = st.trades \cup {d.execID},
                        !.emitted = Append(st.emitted, fresh("trade", d.execID, trade))]

\* on_trade: the "execution" topic
on_trade(st, d) ==
    IF d.lastQty = 0 \/ d.side = "" THEN st
    ELSE IF d.execID \in st.trades THEN st
    ELSE LET trade == [orderid |-> ResolveOrderId(d), tradeid |-> d.execID,
                       direction |-> DIRECTION_BITMEX2VT[d.side],
                       price |-> d.lastPx, volume |-> d.lastQty,
                       time |-> TimeOfDay(d.timestamp)]
         IN  [st EXCEPT !.trades = st.trades \cup {d.execID},
                        !.emitted = Append(st.emitted, fresh("trade", d.execID, trade))]

\* STATUS_BITMEX2VT without its entry for "Filled"
STATUS_BITMEX2VT_without_filled ==
    [s \in {"New", "Partially filled", "Canceled", "Rejected"} |->
        CASE s = "New" -> "NOTTRADED"
          [] s = "Partially filled" -> "PARTTRADED"
          [] s = "Canceled" -> "CANCELLED"
          [] s = "Rejected" -> "REJECTED"]

\* STATUS_BITMEX2VT; the key of "Partially filled" has a space in it
STATUS_BITMEX2VT ==
    [s \in {"New", "Partially filled", "Filled", "Canceled", "Rejected"} |->
        CASE s = "New" -> "NOTTRADED"
          [] s = "Partially filled" -> "PARTTRADED"
          [] s = "Filled" -> "ALLTRADED"
          [] s = "Canceled" -> "CANCELLED"
          [] s = "Rejected" -> "REJECTED"]

\* OrderData(...): traded defaults to 0 and status to Status.SUBMITTING
OrderData(orderid, d) ==
    [orderid |-> orderid, direction |-> DIRECTION_BITMEX2VT[d.side],
     price |-> d.price, volume |-> d.orderQty, time |-> TimeOfDay(d.timestamp),
     traded |-> 0, status |-> "SUBMITTING"]

\* on_order without the test of "ordStatus"
on_order_no_status_test(st, d) ==
    LET sysid == d.orderID
        found == IF sysid \in DOMAIN st.orders THEN st.orders[sysid]
                 ELSE OrderData(ResolveOrderId(d), d)
        order == [found EXCEPT !.traded = Get(d, "cumQty", found.traded),
                               !.status = Get(STATUS_BITMEX2VT,
                                              Get(d, "ordStatus", ""), found.status)]
    IN  [st EXCEPT !.orders = Put(st.orders, sysid, order),
                   !.emitted = Append(st.emitted, copy("order", sysid, order))]

\* on_order: the "order" topic
on_order(st, d) ==
    IF "ordStatus" \notin DOMAIN d THEN st
    ELSE LET sysid == d.orderID
             found == IF sysid \in DOMAIN st.orders THEN st.orders[sysid]
                      ELSE OrderData(ResolveOrderId(d), d)
             order == [found EXCEPT !.traded = Get(d, "cumQty", found.traded),
                                    !.status = Get(STATUS_BITMEX2VT, d.ordStatus,
                                                   found.status)]
         IN  [st EXCEPT !.orders = Put(st.orders, sysid, order),
                        !.emitted = Append(st.emitted, copy("order", sysid, order))]

\* on_position: the "position" topic; nothing is cached
on_position(st, d) ==
    LET position == [symbol |-> d.symbol, direction |-> "NET",
                     volume |-> Get(d, "currentQty", 0)]
    IN  [st EXCEPT !.emitted = Append(st.emitted, fresh("position", d.symbol, position))]

\* AccountData(accountid, gateway_name): balance, frozen and available are 0
AccountData(accountid) ==
    [accountid |-> accountid, balance |-> 0, frozen |-> 0, available |-> 0]

\* on_account: the "margin" topic
on_account(st, d) ==
    LET accountid == Str(d.account)
        found == IF accountid \in DOMAIN st.accounts THEN st.accounts[accountid]
                 ELSE AccountData(accountid)
        balance == Get(d, "marginBalance", found.balance)
        available == Get(d, "availableMargin", found.available)
        account == [found EXCEPT !.balance = balance, !.available = available,
                                 !.frozen = balance - available]
    IN  [st EXCEPT !.accounts = Put(st.accounts, accountid, account),
                   !.emitted = Append(st.emitted, copy("account", accountid, account))]

\* on_contract: the "instrument" topic; nothing is cached
on_contract(st, d) ==
    IF "tickSize" \notin DOMAIN d THEN st
    ELSE IF d.lotSize = 0 THEN st
    ELSE LET contract == [symbol |-> d.symbol, pricetick |-> d.tickSize,
                          size |-> d.lotSize]
         IN  [st EXCEPT !.emitted =
                            Append(st.emitted, fresh("contract", d.symbol, contract))]

\* self.callbacks[name](d)
callback(name, st, d) ==
    CASE name = "trade" -> on_tick(st, d)
      [] name = "orderBook10" -> on_depth(st, d)
      [] name = "execution" -> on_trade(st, d)
      [] name = "order" -> on_order(st, d)
      [] name = "position" -> on_position(st, d)
      [] name = "margin" -> on_account(st, d)
      [] name = "instrument" -> on_contract(st, d)

\* for d in packet["data"]: callback(d)
RECURSIVE ForEach(_, _, _)
ForEach(name, st, data) ==
    IF data = <<>> THEN st
    ELSE ForEach(name, callback(name, st, Head(data)), Tail(data))

\* on_packet's branch of a packet with "table": a list of records goes to the
\* callback record by record, in order; a single record goes to it as it is.
\* packet.data is [list |-> the records] or [dict |-> the record].
dispatch(st, packet) ==
    IF "list" \in DOMAIN packet.data
    THEN ForEach(packet.table, st, packet.data.list)
    ELSE callback(packet.table, st, packet.data.dict)

\* the caches and the host's events become st
SetCaches(st) ==
    /\ ticks' = st.ticks
    /\ orders' = st.orders
    /\ accounts' = st.accounts
    /\ trades' = st.trades
    /\ ws_emitted' = st.emitted

(***************************************************************************)
(* The stream session, BitmexWebsocketApi.  Its base class WebsocketClient *)
(* (vnpy.api.websocket) is the transport: start() runs a reader that,      *)
(* while the session is active, keeps a connection open, calls             *)
(* on_connected when one opens, on_packet for each message and             *)
(* on_disconnected when it drops, and opens a new one after a drop.  The   *)
(* transport is stated here as the stream-session contract words it: the   *)
(* session's `active` flag is what keeps the reader running.               *)
(***************************************************************************)
\* a text is a sequence of characters
NotValid == <<"n", "o", "t", " ", "v", "a", "l", "i", "d">>

\* Python's `sub in text` on strings
Contains(text, sub) ==
    \E i \in 1..(Len(text) - Len(sub) + 1) : SubSeq(text, i, i + Len(sub) - 1) = sub

\* "Signature not valid.", "Invalid API Key.", "Not Valid", "Rate limited."
ErrorTexts ==
    { <<"S", "i", "g", "n", "a", "t", "u", "r", "e", " ">> \o NotValid \o <<".">>,
      <<"I", "n", "v", "a", "l", "i", "d", " ", "A", "P", "I", " ", "K", "e", "y", ".">>,
      <<"N", "o", "t", " ", "V", "a", "l", "i", "d">>,
      <<"R", "a", "t", "e", " ", "l", "i", "m", "i", "t", "e", "d", ".">> }

\* the messages of the venue: a dict with "error" (and, from the venue, the
\* request it answers), with "request" and "success", or with "table" and "data"
Packets ==
    { [error |-> text] : text \in ErrorTexts }
    \cup { [error |-> text, request |-> [op |-> "authKey"]] : text \in ErrorTexts }
    \cup { [request |-> [op |-> op], success |-> success] :
               op \in {"authKey", "subscribe"}, success \in BOOLEAN }
    \cup { [table |-> "trade", data |-> [list |-> <<>>]] }

HasKey(packet, key) == key \in DOMAIN packet

\* WebsocketClient.send_packet: the packet goes out on the connection
send_packet(req) == ws_sent' = Append(ws_sent, req.op)

\* authenticate: {"op": "authKey", "args": [key, expires, signature]}
authenticate == send_packet([op |-> "authKey"])

\* subscribe_topic: {"op": "subscribe", "args": [the seven topics]}
SubscribeArgs ==
    {"instrument", "trade", "orderBook10", "execution", "order", "position", "margin"}

subscribe_topic == send_packet([op |-> "subscribe", args |-> SubscribeArgs])

\* on_connected: a log line, then authenticate()
on_connected == authenticate

\* on_packet without its test of req["op"]: any success is followed by
\* subscribe_topic()
on_packet_any_success(packet) ==
    IF HasKey(packet, "error")
    THEN /\ active' = IF Contains(packet.error, NotValid) THEN FALSE ELSE active
         /\ UNCHANGED <<ws_sent, cacheVars>>
    ELSE IF HasKey(packet, "request")
    THEN /\ UNCHANGED <<active, cacheVars>>
         /\ IF packet.success
            THEN subscribe_topic
            ELSE UNCHANGED ws_sent
    ELSE IF HasKey(packet, "table")
    THEN /\ UNCHANGED <<active, ws_sent>>
         /\ SetCaches(dispatch(CacheState, packet))
    ELSE UNCHANGED <<active, ws_sent, cacheVars>>

\* on_packet's `self.active = False` left out
on_packet_keeps_active(packet) ==
    IF HasKey(packet, "error")
    THEN UNCHANGED <<active, ws_sent, cacheVars>>
    ELSE IF HasKey(packet, "request")
    THEN /\ UNCHANGED <<active, cacheVars>>
         /\ IF packet.success /\ packet.request.op = "authKey"
            THEN subscribe_topic
            ELSE UNCHANGED ws_sent
    ELSE IF HasKey(packet, "table")
    THEN /\ UNCHANGED <<active, ws_sent>>
         /\ SetCaches(dispatch(CacheState, packet))
    ELSE UNCHANGED <<active, ws_sent, cacheVars>>

\* on_packet: an error is logged and, if its text has "not valid" in it, the
\* session is switched off; a successful authKey answer is followed by
\* subscribe_topic(); a table packet goes to the callback of its table, which
\* updates the caches and neither sends a packet nor touches `active`
on_packet(packet) ==
    IF HasKey(packet, "error")
    THEN /\ active' = IF Contains(packet.error, NotValid) THEN FALSE ELSE active
         /\ UNCHANGED <<ws_sent, cacheVars>>
    ELSE IF HasKey(packet, "request")
    THEN /\ UNCHANGED <<active, cacheVars>>
         /\ IF packet.success /\ packet.request.op = "authKey"
            THEN subscribe_topic
            ELSE UNCHANGED ws_sent
    ELSE IF HasKey(packet, "table")
    THEN /\ UNCHANGED <<active, ws_sent>>
         /\ SetCaches(dispatch(CacheState, packet))
    ELSE UNCHANGED <<active, ws_sent, cacheVars>>

\* BitmexWebsocketApi.connect: key, secret, init(host), start(); start() sets
\* the session active and starts the reader.  The host connects once.
ws_connect ==
    /\ ~ws_started
    /\ ws_started' = TRUE
    /\ active' = TRUE
    /\ UNCHANGED <<ws_conn, ws_connects, ws_received, ws_sent, ws_invalid_seen,
                   ws_acked, ws_packet>>
    /\ UNCHANGED <<restVars, histVars, th, cacheVars, cooldown>>

\* the reader, while the session is active and has no connection, opens one
\* (the first, or a reconnect after a drop) and calls on_connected
transport_open ==
    /\ active
    /\ ws_conn = "down"
    /\ ws_connects < MaxWsConnects
    /\ ws_conn' = "up"
    /\ ws_connects' = ws_connects + 1
    /\ ws_acked' = 0
    /\ on_connected
    /\ UNCHANGED <<active, ws_started, ws_received, ws_invalid_seen, ws_packet>>
    /\ UNCHANGED <<restVars, histVars, th, cacheVars, cooldown>>

\* the venue's acknowledgment of a successful authKey request
IsAuthAck(packet) ==
    /\ ~HasKey(packet, "error")
    /\ HasKey(packet, "request")
    /\ packet.request.op = "authKey"
    /\ packet.success

\* the reader, while the session is active, hands a message it received to
\* on_packet
transport_deliver(packet) ==
    /\ active
    /\ ws_conn = "up"
    /\ ws_invalid_seen' =
           (ws_invalid_seen
              \/ (HasKey(packet, "error") /\ Contains(packet.error, NotValid)))
    /\ ws_acked' = IF IsAuthAck(packet) THEN ws_acked + 1 ELSE ws_acked
    /\ ws_packet' = packet
    /\ on_packet(packet)
    /\ UNCHANGED <<ws_started, ws_conn, ws_connects>>
    /\ UNCHANGED <<restVars, histVars, th, cooldown>>

\* the reader receives one of the messages the venue sends
transport_recv(packet) ==
    /\ ws_received < MaxWsPackets
    /\ ws_received' = ws_received + 1
    /\ transport_deliver(packet)

\* the connection drops, or the reader of a session switched off closes it;
\* on_disconnected writes a log line
transport_close ==
    /\ ws_conn = "up"
    /\ ws_conn' = "down"
    /\ UNCHANGED <<active, ws_started, ws_connects, ws_received, ws_sent,
                   ws_invalid_seen, ws_acked, ws_packet>>
    /\ UNCHANGED <<restVars, histVars, th, cacheVars, cooldown>>

WsNext ==
    \/ ws_connect
    \/ transport_open
    \/ \E packet \in Packets : transport_recv(packet)
    \/ transport_close

SpecWs == Init /\ [][WsNext]_vars

(***************************************************************************)
(* The stream session with a fair transport and a fair venue: the network  *)
(* drops the connection a bounded number of times, the reader reconnects   *)
(* after each drop, and the venue answers the authKey request of each      *)
(* connection.                                                             *)
(***************************************************************************)
\* a transient disconnect; the reader can still reconnect afterwards
transport_drop ==
    /\ ws_connects < MaxWsConnects
    /\ transport_close

AuthAck == [request |-> [op |-> "authKey"], success |-> TRUE]

\* the venue's first answer to the authKey request of this connection
venue_ack ==
    /\ ws_acked = 0
    /\ transport_deliver(AuthAck)
    /\ UNCHANGED ws_received

WsLiveNext ==
    \/ ws_connect
    \/ transport_open
    \/ \E packet \in Packets : transport_recv(packet)
    \/ transport_drop
    \/ venue_ack

\* the reader hands over a packet with "table" and "data"
transport_recv_table(table, data) == transport_recv([table |-> table, data |-> data])

\* the packets of a topic: a record as it is, a list of one record, and
\* lists of two of the records `listed`
DataOf(records, listed) ==
    { [dict |-> d] : d \in records }
    \cup { [list |-> <<d>>] : d \in records }
    \cup { [list |-> <<d, e>>] : d \in listed, e \in listed }

\* the ids of the venue: texts that are not all digits
VenueIds == { <<"v", "1">>, <<"v", "2">> }

(***************************************************************************)
(* The execution topic over connections that drop and reopen.              *)
(***************************************************************************)
ExecIds == {"e1", "e2"}

\* an execution record
Execution(id, qty, side, px) ==
    [execID |-> id, lastQty |-> qty, side |-> side, clOrdID |-> EmptyId,
     orderID |-> <<"v", "1">>, symbol |-> "XBTUSD", lastPx |-> px, timestamp |-> 1]

\* execution records: fills at two prices, and records with no quantity or
\* no side (funding, settlement)
Executions ==
    { Execution(id, 1, "Buy", px) : id \in ExecIds, px \in {1, 2} }
    \cup { Execution(id, 0, "Buy", 1) : id \in ExecIds }
    \cup { Execution(id, 1, "", 1) : id \in ExecIds }

ListedExecutions ==
    { Execution("e1", 1, "Buy", 1), Execution("e1", 1, "Buy", 2),
      Execution("e2", 0, "Buy", 1) }

ExecutionsNext ==
    \/ ws_connect
    \/ transport_open
    \/ transport_close
    \/ \E data \in DataOf(Executions, ListedExecutions) :
           transport_recv_table("execution", data)

SpecExecutions == Init /\ [][ExecutionsNext]_vars

(***************************************************************************)
(* The order topic.                                                        *)
(***************************************************************************)
\* an order record: the keys on_order indexes, and the optional ones
OrderMessage(sysid, clOrdID, optional) ==
    [k \in {"orderID", "clOrdID", "symbol", "ordType", "side", "price", "orderQty",
            "timestamp"} \cup DOMAIN optional |->
        CASE k = "orderID" -> sysid
          [] k = "clOrdID" -> clOrdID
          [] k = "symbol" -> "XBTUSD"
          [] k = "ordType" -> "Limit"
          [] k = "side" -> "Buy"
          [] k \in {"price", "orderQty", "timestamp"} -> 1
          [] OTHER -> optional[k]]

\* with and without ordStatus, with and without cumQty; statuses in and not in
\* STATUS_BITMEX2VT
OrderOptionals ==
    { <<>>, [cumQty |-> 1], [ordStatus |-> "New"], [ordStatus |-> "Triggered"],
      [ordStatus |-> "Filled", cumQty |-> 1], [ordStatus |-> "Rejected"] }

\* the venue's orders: one with a client id (all digits), one without
OrderKeys == { <<(<<"v", "1">>), Str(7)>>, <<(<<"v", "2">>), EmptyId>> }

OrderMessages ==
    { OrderMessage(key[1], key[2], optional) :
          key \in OrderKeys, optional \in OrderOptionals }

ListedOrderMessages ==
    { OrderMessage(<<"v", "1">>, Str(7), [cumQty |-> 1]),
      OrderMessage(<<"v", "1">>, Str(7), [ordStatus |-> "New"]),
      OrderMessage(<<"v", "2">>, EmptyId, <<>>) }

\* the venue sends a packet of the order topic
recv_orders(data) ==
    /\ Len(ws_emitted) < MaxEvents
    /\ transport_recv_table("order", data)

OrderTopicNext ==
    \/ ws_connect
    \/ transport_open
    \/ \E data \in DataOf(OrderMessages, ListedOrderMessages) : recv_orders(data)

SpecOrderTopic == Init /\ [][OrderTopicNext]_vars

(***************************************************************************)
(* The depth topic, for symbols the host has and has not subscribed to.    *)
(***************************************************************************)
Symbols == {"XBTUSD", "ETHUSD"}

\* the symbols the host subscribes to
HostSymbols == Symbols

\* BitmexGateway.subscribe -> BitmexWebsocketApi.subscribe(req), at time 0
subscribe(symbol) ==
    /\ symbol \notin DOMAIN ticks
    /\ SetCaches(ws_subscribe(CacheState, symbol, 0))
    /\ UNCHANGED <<restVars, histVars, th, sessionVars, cooldown>>

\* n levels [price, size] of one side of the book: level k is at base + k
BookSide(n, base) == [k \in 1..n |-> <<base + k, 100 + base + k>>]

\* orderBook10 records: sides with no level, with fewer than five and with
\* more than five levels
Depths ==
    { [symbol |-> symbol, bids |-> bids, asks |-> asks, timestamp |-> 1] :
          symbol \in Symbols,
          bids \in { BookSide(0, 10), BookSide(2, 10), BookSide(6, 20) },
          asks \in { BookSide(1, 30), BookSide(6, 40) } }

ListedDepths ==
    { d \in Depths : d.bids = BookSide(6, 20) /\ d.asks = BookSide(1, 30) }

\* the venue sends a packet of the orderBook10 topic
recv_depth(data) ==
    /\ Len(ws_emitted) < MaxEvents
    /\ transport_recv_table("orderBook10", data)

DepthNext ==
    \/ ws_connect
    \/ transport_open
    \/ \E symbol \in HostSymbols : subscribe(symbol)
    \/ \E data \in DataOf(Depths, ListedDepths) : recv_depth(data)

SpecDepth == Init /\ [][DepthNext]_vars

(***************************************************************************)
(* All the topics together.                                                *)
(***************************************************************************)
\* the record f with the keys of g added or replaced
Merge(f, g) == [k \in DOMAIN f \cup DOMAIN g |-> IF k \in DOMAIN g THEN g[k] ELSE f[k]]

\* records of the trade topic (public trades)
TickMessages ==
    { [symbol |-> symbol, price |-> price, timestamp |-> 2] :
          symbol \in Symbols, price \in {1, 2} }

\* records of the margin topic: balance and available are optional
MarginMessages ==
    { Merge([account |-> 1], optional) :
          optional \in { <<>>, [marginBalance |-> 5], [availableMargin |-> 3],
                         [marginBalance |-> 7, availableMargin |-> 3] } }

\* records of the position topic: currentQty is optional
PositionMessages == { [symbol |-> "XBTUSD"], [symbol |-> "XBTUSD", currentQty |-> 2] }

\* records of the instrument topic: indices have no tickSize or no lotSize
InstrumentMessages ==
    { [symbol |-> "XBTUSD", tickSize |-> 1, lotSize |-> 1],
      [symbol |-> ".BXBT", tickSize |-> 1, lotSize |-> 0],
      [symbol |-> ".EVOL7D", lotSize |-> 1] }

\* the packets of the seven topics
TablePackets ==
    { <<"trade", data>> : data \in DataOf(TickMessages, {}) }
    \cup { <<"orderBook10", data>> : data \in DataOf(ListedDepths, ListedDepths) }
    \cup { <<"execution", data>> : data \in DataOf(ListedExecutions, {}) }
    \cup { <<"order", data>> : data \in DataOf(ListedOrderMessages, ListedOrderMessages) }
    \cup { <<"margin", data>> : data \in DataOf(MarginMessages, {}) }
    \cup { <<"position", data>> : data \in DataOf(PositionMessages, {}) }
    \cup { <<"instrument", data>> : data \in DataOf(InstrumentMessages, {}) }

\* the venue sends a packet of one of the topics
recv_table(table, data) ==
    /\ Len(ws_emitted) < MaxEvents
    /\ transport_recv_table(table, data)

CacheNext ==
    \/ ws_connect
    \/ transport_open
    \/ \E symbol \in HostSymbols : subscribe(symbol)
    \/ \E packet \in TablePackets : recv_table(packet[1], packet[2])

SpecCache == Init /\ [][CacheNext]_vars

SpecWsLive ==
    /\ Init
    /\ [][WsLiveNext]_vars
    /\ WF_vars(transport_open)
    /\ WF_vars(venue_ack)

(***************************************************************************)
(* REST and stream together: orders are placed over REST, and the venue    *)
(* reports each of them on the order and execution topics under its own    *)
(* id and the clOrdID of the POST, before or after the REST callback runs. *)
(***************************************************************************)
\* the venue's id of the k-th order placed
VenueIdOf(k) == <<"v">> \o Str(k)

\* the venue's order record of the k-th order placed
VenueOrder(k, optional) ==
    OrderMessage(VenueIdOf(k), order_objs[k].orderid, optional)

\* the venue's execution record of the k-th order placed
VenueExecution(k, id, qty) ==
    [Execution(id, qty, "Buy", 1) EXCEPT !.clOrdID = order_objs[k].orderid,
                                         !.orderID = VenueIdOf(k)]

\* what the venue reports of an order: with and without ordStatus
VenueOptionals == { <<>>, [ordStatus |-> "New"], [ordStatus |-> "Filled", cumQty |-> 1] }

\* an order the host did not place through this gateway: no clOrdID
ForeignOrder == OrderMessage(<<"v", "9">>, EmptyId, [ordStatus |-> "New"])

\* the venue reports the k-th order it received
venue_order(k, optional) ==
    /\ k \in 1..Len(order_objs)
    /\ Len(ws_emitted) < MaxEvents
    /\ transport_recv_table("order", [list |-> <<VenueOrder(k, optional)>>])

\* the venue reports an execution of the k-th order it received
venue_execution(k, id, qty) ==
    /\ k \in 1..Len(order_objs)
    /\ Len(ws_emitted) < MaxEvents
    /\ transport_recv_table("execution", [list |-> <<VenueExecution(k, id, qty)>>])

\* the venue reports an order placed elsewhere
venue_foreign_order ==
    /\ Len(ws_emitted) < MaxEvents
    /\ transport_recv_table("order", [list |-> <<ForeignOrder>>])

CorrelationNext ==
    \/ \E epoch \in Epochs : connect(epoch)
    \/ \E req \in OrderRequests : send_order(req)
    \/ \E i \in 1..MaxInFlight, headers \in Headers : on_send_order(i, headers)
    \/ \E i \in 1..MaxInFlight, e \in ExceptionTypes : on_send_order_error(i, e)
    \/ ws_connect
    \/ transport_open
    \/ \E k \in 1..MaxOrders, optional \in VenueOptionals : venue_order(k, optional)
    \/ \E k \in 1..MaxOrders, id \in ExecIds, qty \in {0, 1} : venue_execution(k, id, qty)
    \/ venue_foreign_order

SpecCorrelation == Init /\ [][CorrelationNext]_vars

(***************************************************************************)
(* Properties.                                                             *)
(***************************************************************************)
\* the OrderData object whose orderid is `orderid`
RefOf(objs, orderid) == CHOOSE k \in 1..Len(objs) : objs[k].orderid = orderid

\* C1: after any sequence of check_rate_limit / update_rate_limit /
\* reset_rate_limit calls, 0 <= remaining <= limit and penaltySeconds >= 0.
C1_RemainingWithinLimit ==
    /\ 0 <= rate_limit_remaining
    /\ rate_limit_remaining <= rate_limit_limit
    /\ rate_limit_sleep >= 0

\* C3: send_order called while remaining = 0 or penaltySeconds > 0 returns the
\* empty id, hands no request to the transport, emits nothing, rejects no
\* order, takes no order id and leaves remaining and penaltySeconds as they were.
C3_DeniedSendOrderDoesNothing ==
    [][(last'.op = "send_order"
            /\ (rate_limit_remaining = 0 \/ rate_limit_sleep > 0))
        => /\ last'.ret = EmptyId
           /\ last'.sent = <<>>
           /\ requests' = requests
           /\ emitted' = emitted
           /\ order_objs' = order_objs
           /\ order_count' = order_count
           /\ rate_limit_remaining' = rate_limit_remaining
           /\ rate_limit_sleep' = rate_limit_sleep]_vars

C3_Witness ==
    /\ last.op = "send_order"
    /\ last.ret = EmptyId
    /\ rate_limit_remaining = 0
    /\ Len(emitted) > 0

C7_FailedAnswerRejectsOnce ==
    [][/\ (last'.op = "on_send_order_failed"
            => LET ref == RefOf(order_objs, last'.ret)
               IN  /\ rate_limit_remaining' = last'.headers["x-ratelimit-remaining"]
                   /\ order_objs'[ref].status = "REJECTED"
                   /\ emitted' = Append(emitted,
                          [kind |-> "order", ref |-> ref, status |-> "REJECTED"])
                   /\ \E i \in 1..Len(requests) :
                          requests[i] = [method |-> "POST", extra |-> ref])
       /\ (last'.op = "on_send_order"
            => /\ rate_limit_remaining' = last'.headers["x-ratelimit-remaining"]
               /\ emitted' = emitted
               /\ order_objs' = order_objs)]_vars

C7_Witness ==
    /\ last.op = "on_send_order_failed"
    /\ rate_limit_remaining = last.headers["x-ratelimit-remaining"]
    /\ rate_limit_remaining = 0
    /\ emitted[Len(emitted)].status = "REJECTED"
    /\ Len(emitted) = 2

\* C2: no REST request (order placement, cancellation, page of a history
\* query) is handed to the transport from a state where penaltySeconds > 0
\* or remaining = 0.
C2_NoRequestWhileLimited ==
    [][(last'.sent # <<>>)
        => ~(rate_limit_sleep > 0 \/ rate_limit_remaining = 0)]_vars

\* a full page: 2xx and PageCount rows
FullPage(page) == page.ok /\ page.n = PageCount

\* the rows of the pages served, in the order received
RECURSIVE AllRows(_, _)
AllRows(served, delta) ==
    IF served = <<>> THEN <<>>
    ELSE AllRows(SubSeq(served, 1, Len(served) - 1), delta)
             \o PageData(served[Len(served)], delta)

\* C8: a history query asks for pages of 750 rows from request.start on, goes
\* on after a full page with the cursor at the last bar's time plus one
\* interval, stops at the first page that is short, empty or non-2xx, and
\* returns the rows received in order; served 750 rows and then ShortRows (10)
\* rows it returns 750 + ShortRows (760) bars after two requests.
C8_HistoryPagination ==
    LET delta == TIMEDELTA_MAP(hist_req.interval)
        n == Len(hist_served)
    IN  /\ (hist_pc = "waiting")
            => /\ \A k \in 1..n : FullPage(hist_served[k])
               /\ hist_history = AllRows(hist_served, delta)
               /\ hist_start_time =
                      IF n = 0 THEN hist_req.start
                      ELSE hist_served[n].first + (PageCount - 1) * delta + delta
               /\ (last.op \in {"query_history", "query_history_page"})
                      => /\ Len(last.sent) = 1
                         /\ last.sent[1].params.count = 750
                         /\ last.sent[1].params.startTime = hist_start_time
        /\ (last.op = "query_history_return")
            => /\ n >= 1
               /\ \A k \in 1..(n - 1) : FullPage(hist_served[k])
               /\ \/ ~hist_served[n].ok
                  \/ hist_served[n].n = 0
                  \/ hist_served[n].n < 750
               /\ last.ret = AllRows(hist_served, delta)
               /\ last.sent = <<>>
               /\ (FullPage(hist_served[1]) /\ hist_served[2].ok
                        /\ hist_served[2].n = ShortRows)
                      => (n = 2 /\ Len(last.ret) = 750 + ShortRows)

C8_Witness ==
    /\ last.op = "query_history_return"
    /\ Len(hist_served) = 2
    /\ hist_served[1].n = 750
    /\ hist_served[2].n = 10
    /\ hist_served[2].first = hist_served[1].first + 750
    /\ Len(last.ret) = 760

\* C9: every page request of a history query is preceded by its own
\* successful check_rate_limit, which takes one unit of remaining; a page
\* whose check is denied is not sent.
C9_EveryPageGoverned ==
    [][(last'.op \in {"query_history", "query_history_page"} /\ last'.sent # <<>>)
        => /\ rate_limit_sleep = 0
           /\ rate_limit_remaining # 0
           /\ rate_limit_remaining' = rate_limit_remaining - 1]_vars

(***************************************************************************)
(* C4: the rate governor's check-and-decrement is atomic across concurrent *)
(* callers, the timer tick and the observation of response headers: a      *)
(* caller that passed the test takes a unit that was there, so remaining   *)
(* never becomes negative.                                                 *)
(***************************************************************************)
C4_RemainingNeverNegative == rate_limit_remaining >= 0

(***************************************************************************)
(* C5: within one connection, concurrent order submissions obtain pairwise *)
(* distinct client order ids (connect_time + sequence), no id is issued    *)
(* twice, and each id issued is greater than every id issued before it, in *)
(* the order in which the counter lock was taken.                          *)
(***************************************************************************)
\* the ids a caller holds between _new_order_id and its return
HeldIds == { th[c].oid : c \in { d \in Callers : th[d].oid # EmptyId } }

\* the ids of the orders created
CreatedIds == { order_objs[k].orderid : k \in 1..Len(order_objs) }

IssuedIds == HeldIds \cup CreatedIds

\* no two callers hold the same id, no two orders carry the same id, and an
\* id held by a caller that has not yet created its order is no order's id
IdsPairwiseDistinct ==
    /\ \A c, d \in Callers :
           (c # d /\ th[c].oid # EmptyId /\ th[d].oid # EmptyId)
               => th[c].oid # th[d].oid
    /\ \A i, j \in 1..Len(order_objs) :
           i # j => order_objs[i].orderid # order_objs[j].orderid
    /\ \A c \in Callers :
           th[c].pc = "add_request" => th[c].oid \notin CreatedIds

C5_DistinctIncreasingIds ==
    [][ /\ IdsPairwiseDistinct'
        /\ \A c \in Callers :
               (th[c].oid = EmptyId /\ th'[c].oid # EmptyId) =>
                   /\ isdigit(th'[c].oid)
                   /\ ParseInt(th'[c].oid) = connect_time + order_count'
                   /\ \A id \in IssuedIds : ParseInt(id) < ParseInt(th'[c].oid) ]_vars

\* both callers hold an id at once, each between _new_order_id and add_request
C5_Witness ==
    /\ \A c \in Callers : th[c].pc = "add_request" /\ th[c].oid # EmptyId
    /\ order_count = InitialOrderCount + 2

(***************************************************************************)
(* C10: once the stream session has received an error message whose text   *)
(* contains "not valid", the session is switched off (active = false) and  *)
(* stays so: no connection is opened again, and no authentication request  *)
(* and no subscribe request is sent again.                                 *)
(***************************************************************************)
C10_InvalidCredentialsTerminal ==
    [][ /\ ws_invalid_seen' => ~active'
        /\ ws_invalid_seen => /\ ws_sent' = ws_sent
                              /\ ws_connects' = ws_connects
                              /\ ws_conn' # "up" \/ ws_conn = "up" ]_vars

\* the session authenticated, subscribed, then received the error on its
\* first connection, which has dropped since; a reconnect was still allowed
C10_Witness ==
    /\ ws_invalid_seen
    /\ ws_sent = <<"authKey", "subscribe">>
    /\ ws_conn = "down"
    /\ ws_connects < MaxWsConnects

(***************************************************************************)
(* C11: after a transient disconnect the session runs the full cycle       *)
(* again.  Every connection the transport opens is followed at once by one *)
(* authKey request; on each connection a subscribe request (naming the     *)
(* seven topics) is sent once per acknowledgment of a successful authKey   *)
(* of that connection and never before one; and, with a fair transport and *)
(* venue and no invalid-credential error, a session that is down is        *)
(* subscribed again later.                                                 *)
(***************************************************************************)
\* the number of entries of s equal to op
RECURSIVE CountOp(_, _)
CountOp(s, op) ==
    IF s = <<>> THEN 0
    ELSE CountOp(Tail(s), op) + (IF Head(s) = op THEN 1 ELSE 0)

\* the requests sent on the current connection: from the last authKey on
RECURSIVE SinceLastAuth(_)
SinceLastAuth(s) ==
    IF s = <<>> THEN <<>>
    ELSE IF s[Len(s)] = "authKey" THEN <<"authKey">>
    ELSE Append(SinceLastAuth(SubSeq(s, 1, Len(s) - 1)), s[Len(s)])

Subscribed == ws_conn = "up" /\ ws_acked > 0 /\ ws_sent[Len(ws_sent)] = "subscribe"

C11_FullCycleOnReconnect ==
    /\ [](/\ CountOp(ws_sent, "authKey") = ws_connects
          /\ CountOp(SinceLastAuth(ws_sent), "subscribe") = ws_acked
          /\ Cardinality(SubscribeArgs) = 7)
    /\ [][ws_connects' # ws_connects =>
              /\ ws_connects' = ws_connects + 1
              /\ ws_sent' = Append(ws_sent, "authKey")]_vars
    /\ [][ws_sent' # ws_sent /\ ws_connects' = ws_connects =>
              /\ ws_acked' = ws_acked + 1
              /\ ws_sent' = Append(ws_sent, "subscribe")]_vars
    /\ ((ws_started /\ ws_conn = "down") ~> (Subscribed \/ ws_invalid_seen))

\* the session was subscribed on its first connection, lost it, and is
\* subscribed again on the second
C11_Witness ==
    /\ ws_connects = 2
    /\ Subscribed
    /\ ~ws_invalid_seen
    /\ ws_sent = <<"authKey", "subscribe", "authKey", "subscribe">>

(***************************************************************************)
(* C12: for any sequence of execution messages, across disconnects and     *)
(* reconnects, each trade id is emitted to the host at most once, what was *)
(* emitted stays as it was (the first delivery wins), the set of trade ids *)
(* seen only grows, and a record with lastQty = 0 or with no side is never *)
(* emitted and does not add its id to the set.                             *)
(***************************************************************************)
\* the positions of the host's events of one kind
EventsOf(kind) == { k \in 1..Len(ws_emitted) : ws_emitted[k].kind = kind }

\* the records of the packet on_packet was called with last
RecordsOf(packet) ==
    IF ~HasKey(packet, "table") THEN {}
    ELSE IF "list" \in DOMAIN packet.data
    THEN { packet.data.list[k] : k \in 1..Len(packet.data.list) }
    ELSE { packet.data.dict }

NoFill(d) == d.lastQty = 0 \/ d.side = ""

C12_TradeEmittedOnce ==
    [][ /\ \A i, j \in EventsOf("trade")' :
               i # j => ws_emitted'[i].key # ws_emitted'[j].key
        /\ trades \subseteq trades'
        /\ \A k \in 1..Len(ws_emitted) : ws_emitted'[k] = ws_emitted[k]
        /\ trades' = { ws_emitted'[k].key : k \in EventsOf("trade")' }
        /\ \A k \in EventsOf("trade")' :
               ws_emitted'[k].data.volume # 0 /\ ws_emitted'[k].data.direction # ""
        /\ (ws_received' # ws_received /\ \A d \in RecordsOf(ws_packet') : NoFill(d))
               => (trades' = trades /\ ws_emitted' = ws_emitted) ]_vars

\* a fill has been delivered again, at another price, on the second
\* connection, along with a record without quantity: one event, one id
C12_Witness ==
    /\ ws_connects = 2
    /\ HasKey(ws_packet, "table")
    /\ trades = {"e1"}
    /\ Len(ws_emitted) = 1
    /\ \E d, e \in RecordsOf(ws_packet) :
           /\ d.execID = "e1" /\ ~NoFill(d) /\ d.lastPx # ws_emitted[1].data.price
           /\ e.execID = "e2" /\ NoFill(e)

(***************************************************************************)
(* C13: an order-topic message without an ordStatus field leaves the order *)
(* cache and every cached OrderData unchanged and emits nothing to the     *)
(* host, whether or not the venue order id is cached.                      *)
(***************************************************************************)
IsTable(packet, name) == HasKey(packet, "table") /\ packet.table = name

C13_NoStatusNoEffect ==
    [][ ( /\ ws_received' # ws_received
          /\ IsTable(ws_packet', "order")
          /\ \A d \in RecordsOf(ws_packet') : "ordStatus" \notin DOMAIN d )
        => UNCHANGED cacheVars ]_vars

\* a list of two records without ordStatus has been delivered, one for a
\* cached order (with a cumQty that differs from what is cached), one for an
\* order that is not cached
C13_Witness ==
    /\ IsTable(ws_packet, "order")
    /\ "list" \in DOMAIN ws_packet.data
    /\ \A d \in RecordsOf(ws_packet) : "ordStatus" \notin DOMAIN d
    /\ \E d, e \in RecordsOf(ws_packet) :
           /\ d.orderID \in DOMAIN orders
           /\ "cumQty" \in DOMAIN d
           /\ d.cumQty # orders[d.orderID].traded
           /\ e.orderID \notin DOMAIN orders

(***************************************************************************)
(* C17: for order-topic messages carrying ordStatus, the first message for *)
(* a venue order id creates one OrderData cached under that venue id whose *)
(* display id is the client id when present and otherwise the venue id;    *)
(* every such message sets traded to the message's cumQty when present     *)
(* (else keeps it), sets the status to the mapped value when the venue     *)
(* status is New, Partially filled, Filled, Canceled or Rejected (else     *)
(* keeps the prior status), and emits exactly one order snapshot; the      *)
(* cache holds one record per venue id and never removes a record.         *)
(***************************************************************************)
\* the records of a packet, in order
RecordSeq(packet) ==
    IF "list" \in DOMAIN packet.data THEN packet.data.list ELSE <<packet.data.dict>>

\* the status an order has after a message with venue status s
StatusAfter(s, prior) ==
    CASE s = "New" -> "NOTTRADED"
      [] s = "Partially filled" -> "PARTTRADED"
      [] s = "Filled" -> "ALLTRADED"
      [] s = "Canceled" -> "CANCELLED"
      [] s = "Rejected" -> "REJECTED"
      [] OTHER -> prior

\* what one message with ordStatus does
OrderMessageEffect(d) ==
    LET sysid == d.orderID
        known == sysid \in DOMAIN orders
        after == orders'[sysid]
    IN  /\ DOMAIN orders' = DOMAIN orders \cup {sysid}
        /\ \A k \in DOMAIN orders \ {sysid} : orders'[k] = orders[k]
        /\ after.orderid = IF known THEN orders[sysid].orderid
                           ELSE IF d.clOrdID # EmptyId THEN d.clOrdID ELSE sysid
        /\ after.traded = IF "cumQty" \in DOMAIN d THEN d.cumQty
                          ELSE IF known THEN orders[sysid].traded ELSE 0
        /\ after.status = StatusAfter(d.ordStatus,
                                      IF known THEN orders[sysid].status
                                      ELSE "SUBMITTING")
        /\ Len(ws_emitted') = Len(ws_emitted) + 1
        /\ SubSeq(ws_emitted', 1, Len(ws_emitted)) = ws_emitted
        /\ LET event == ws_emitted'[Len(ws_emitted')]
           IN  event.kind = "order" /\ event.key = sysid /\ event.data = after

LevelAfter(old, levels, n, i) == IF n <= Len(levels) THEN levels[n][i] ELSE old[n]

DepthMessageEffect(d) ==
    IF d.symbol \notin DOMAIN ticks THEN UNCHANGED cacheVars
    ELSE LET old == ticks[d.symbol]
             new == ticks'[d.symbol]
         IN  /\ DOMAIN ticks' = DOMAIN ticks
             /\ \A symbol \in DOMAIN ticks \ {d.symbol} : ticks'[symbol] = ticks[symbol]
             /\ \A n \in 1..5 :
                    /\ new.bid_price[n] = LevelAfter(old.bid_price, d.bids, n, 1)
                    /\ new.bid_volume[n] = LevelAfter(old.bid_volume, d.bids, n, 2)
                    /\ new.ask_price[n] = LevelAfter(old.ask_price, d.asks, n, 1)
                    /\ new.ask_volume[n] = LevelAfter(old.ask_volume, d.asks, n, 2)
             /\ new.last_price = old.last_price
             /\ Len(ws_emitted') = Len(ws_emitted) + 1
             /\ ws_emitted'[Len(ws_emitted')].data = new

FiveLevels(tick) ==
    /\ DOMAIN tick.bid_price = 1..5 /\ DOMAIN tick.bid_volume = 1..5
    /\ DOMAIN tick.ask_price = 1..5 /\ DOMAIN tick.ask_volume = 1..5

C14_DepthOverwritesFirstFive ==
    [][ (ws_received' # ws_received /\ IsTable(ws_packet', "orderBook10")) =>
          /\ \A symbol \in DOMAIN ticks' : FiveLevels(ticks'[symbol])
          /\ (\A d \in RecordsOf(ws_packet') : d.symbol \notin DOMAIN ticks)
                 => UNCHANGED cacheVars
          /\ Len(RecordSeq(ws_packet')) = 1 => DepthMessageEffect(RecordSeq(ws_packet')[1])
      ]_vars

\* after a message with six bid levels, a message with two: levels 1 and 2
\* are the new ones, 3 to 5 the old ones, and the sixth never got in
C14_Witness ==
    /\ IsTable(ws_packet, "orderBook10")
    /\ Len(RecordSeq(ws_packet)) = 1
    /\ "XBTUSD" \in DOMAIN ticks
    /\ RecordSeq(ws_packet)[1].symbol = "XBTUSD"
    /\ RecordSeq(ws_packet)[1].bids = BookSide(2, 10)
    /\ ticks["XBTUSD"].bid_price = <<11, 12, 23, 24, 25>>
    /\ ticks["XBTUSD"].ask_price = <<31, 0, 0, 0, 0>>

(***************************************************************************)
(* C15: copy-on-emit.  Every tick, order and account record a stream       *)
(* handler hands to the host is a snapshot distinct from the cached        *)
(* record: no later stream message, of any topic, changes any field of a   *)
(* record that was emitted.                                                *)
(***************************************************************************)
\* the cache a kind of event comes from
CacheOf(kind) ==
    CASE kind = "tick" -> ticks
      [] kind = "order" -> orders
      [] kind = "account" -> accounts

\* what the host reads in the object it was given: the cached object as it
\* is now if it was given that object, else the object as it was given
HostView(event) ==
    IF event.cached THEN CacheOf(event.kind)[event.key] ELSE event.data

CachedKinds == {"tick", "order", "account"}

C15_CopyOnEmit ==
    [][ \A k \in 1..Len(ws_emitted) :
            ws_emitted[k].kind \in CachedKinds =>
                /\ ~ws_emitted[k].cached
                /\ k <= Len(ws_emitted')
                /\ ws_emitted'[k] = ws_emitted[k]
                /\ HostView(ws_emitted[k])' = ws_emitted[k].data ]_vars

\* the host holds a tick whose cached record a later depth message has
\* changed, and an order or account whose cached record is as it was given
C15_Witness ==
    \E i, j \in 1..Len(ws_emitted) :
        /\ ws_emitted[i].kind = "tick"
        /\ ws_emitted[i].data.last_price # 0
        /\ ws_emitted[i].data.bid_price # ticks[ws_emitted[i].key].bid_price
        /\ ws_emitted[j].kind \in {"order", "account"}
        /\ ws_emitted[j].data = CacheOf(ws_emitted[j].kind)[ws_emitted[j].key]

\* an answer has just been observed by update_rate_limit
ObserveStep ==
    /\ last'.op = "update_rate_limit"
    /\ Len(requests') < Len(requests)

\* the timer has just fired reset_rate_limit
TickStep ==
    /\ last'.op = "reset_rate_limit"
    /\ requests' = requests

\* C16: update_rate_limit on a response sets remaining to the value of the
\* quota-remaining header whatever the local estimate was, and sets the
\* penalty to v + 1 when the response carries a retry-after value v;
\* update_rate_limit on a request without a response changes nothing;
\* reset_rate_limit adds 1 to remaining, capped at the limit, and subtracts 1
\* from the penalty, floored at 0.
C16_ObserveAndTick ==
    [][/\ (ObserveStep /\ last'.ok) =>
              /\ rate_limit_remaining' = last'.headers["x-ratelimit-remaining"]
              /\ "Retry-After" \in DOMAIN last'.headers =>
                     rate_limit_sleep' = last'.headers["Retry-After"] + 1
       /\ (ObserveStep /\ ~last'.ok) =>
              UNCHANGED <<rate_limit_limit, rate_limit_remaining, rate_limit_sleep>>
       /\ TickStep =>
              /\ rate_limit_remaining' =
                     IF rate_limit_remaining + 1 <= rate_limit_limit
                     THEN rate_limit_remaining + 1 ELSE rate_limit_limit
              /\ rate_limit_sleep' =
                     IF rate_limit_sleep > 0 THEN rate_limit_sleep - 1 ELSE 0
      ]_vars

\* a request has just been handed to the transport by send_order or cancel_order
SendStep ==
    /\ last'.op \in {"send_order", "cancel_order"}
    /\ last'.sent # <<>>
    /\ Len(requests') > Len(requests)

\* C20: once a response with a retry-after value v > 0 has been observed, no
\* order placement or cancellation is sent before v + 1 timer events have
\* occurred, whatever other responses are observed in the meantime.
C20_CooldownHonoured == [][SendStep => cooldown = 0]_vars

\* a non-empty string of decimal digits
AllNumeric(id) ==
    /\ Len(id) > 0
    /\ \A k \in 1..Len(id) : id[k] \in {"0", "1", "2", "3", "4", "5", "6", "7", "8", "9"}

\* the governor would permit a request now
Permitted == rate_limit_sleep = 0 /\ rate_limit_remaining # 0

\* C19: cancel_order, when the rate governor permits, sends exactly one DELETE,
\* keyed by client id if the given id is all-numeric and by venue id
\* otherwise, and changes no local state but the quota (no order object, no
\* cached order, no emission); when denied it sends nothing.  Every id that
\* send_order issues is all-numeric, so cancelling it is keyed by client id.
C19_CancelOrder ==
    [][/\ (last'.op = "cancel_order" /\ Permitted) =>
              /\ Len(last'.sent) = 1
              /\ last'.sent[1].method = "DELETE"
              /\ last'.sent[1].params.key =
                     IF AllNumeric(last'.sent[1].params.id) THEN "clOrdID" ELSE "orderID"
              /\ requests' = Append(requests, [method |-> "DELETE", extra |-> 0])
              /\ rate_limit_remaining' = rate_limit_remaining - 1
              /\ UNCHANGED <<rate_limit_limit, rate_limit_sleep, order_count,
                             connect_time, connected, order_objs, emitted,
                             orders, trades, ws_emitted>>
       /\ (last'.op = "cancel_order" /\ ~Permitted) =>
              /\ last'.sent = <<>>
              /\ UNCHANGED <<rate_limit_limit, rate_limit_remaining, rate_limit_sleep,
                             order_count, connect_time, connected, requests,
                             order_objs, emitted, orders, trades, ws_emitted>>
       /\ (last'.op = "send_order" /\ last'.sent # <<>>) =>
              /\ AllNumeric(last'.ret)
              /\ CancelParams(last'.ret).key = "clOrdID"
      ]_vars

\* an id that send_order issued has just been cancelled, by client id
C19_Witness ==
    /\ last.op = "cancel_order"
    /\ Len(last.sent) = 1
    /\ last.sent[1].params.key = "clOrdID"
    /\ \E k \in 1..Len(order_objs) : order_objs[k].orderid = last.sent[1].params.id

\* the record of the packet just delivered (the venue sends lists of one)
Delivered == ws_packet'.data.list[1]

\* a packet of topic `table` has just been delivered whose record carries
\* the client id of an order that send_order accepted
CarriesIssuedId(table) ==
    /\ ws_received' # ws_received
    /\ IsTable(ws_packet', table)
    /\ \E k \in 1..Len(order_objs) :
           /\ order_objs[k].orderid = Delivered.clOrdID
           /\ \E n \in 1..Len(emitted) : emitted[n].ref = k

\* the events that the step has added to what the host was given
NewEvents == { ws_emitted'[n] : n \in (Len(ws_emitted) + 1)..Len(ws_emitted') }

\* C18: for every order that send_order accepted with client id c, a stream
\* order or execution message that carries client id c is emitted to the
\* host with order id c, the id send_order returned and emitted, whether the
\* message arrives before or after the REST callback and although the stream
\* session has no record of the order until the stream reports it.
C18_Correlation ==
    [][/\ CarriesIssuedId("order") =>
              /\ \A e \in NewEvents : e.kind = "order" /\ e.data.orderid = Delivered.clOrdID
              /\ "ordStatus" \in DOMAIN Delivered => Len(ws_emitted') = Len(ws_emitted) + 1
       /\ CarriesIssuedId("execution") =>
              /\ \A e \in NewEvents : e.kind = "trade" /\ e.data.orderid = Delivered.clOrdID
              /\ (Delivered.lastQty # 0 /\ Delivered.execID \notin trades) =>
                     Len(ws_emitted') = Len(ws_emitted) + 1
      ]_vars

\* the stream has reported an order and an execution of it under the id
\* that send_order issued, while the POST is still unanswered
C18_Witness ==
    \E i \in 1..Len(requests), m, n \in 1..Len(ws_emitted) :
        /\ requests[i].method = "POST"
        /\ ws_emitted[m].kind = "order"
        /\ ws_emitted[n].kind = "trade"
        /\ ws_emitted[m].data.orderid = order_objs[requests[i].extra].orderid
        /\ ws_emitted[n].data.orderid = order_objs[requests[i].extra].orderid

\* C22: for every order that send_order accepted, the host is given the
\* order with status SUBMITTING before it is given it with status REJECTED
\* by on_send_order_failed or on_send_order_error, however the caller of
\* send_order and the REST worker interleave.
C22_PendingBeforeRejected ==
    \A n \in 1..Len(emitted) :
        emitted[n].status = "REJECTED" =>
            \E m \in 1..(n - 1) :
                /\ emitted[m].ref = emitted[n].ref
                /\ emitted[m].status = "SUBMITTING"

\* C23: the order object that send_order gave to the host with status
\* SUBMITTING is not changed afterwards: the object the host holds still has
\* the status it was given with, also after on_send_order_failed and
\* on_send_order_error have run.
C23_EmittedPendingUnchanged ==
    \A n \in 1..Len(emitted) :
        emitted[n].status = "SUBMITTING" =>
            order_objs[emitted[n].ref].status = "SUBMITTING"

\* C21: the rate governor never blocks for ever: while the timer keeps
\* firing and no further response is observed, rate_limit_sleep comes to 0
\* and rate_limit_remaining above 0, so that check_rate_limit returns True
\* from then on.
C21_NeverBlocksForever ==
    <>[](rate_limit_sleep = 0 /\ rate_limit_remaining > 0)


============================================================================
